---- MODULE Spec2Model ----
(***************************************************************************)
(* A model of the scan-ingestion and compliance-correlation pipeline:      *)
(* the NIST 800-53 control mapper (src/src/compliance/nist_mapper.py) and  *)
(* the Nessus parser (src/src/parser/nessus_parser.py).                    *)
(*                                                                         *)
(* Python str values are TLA+ strings; Len, SubSeq and \o act on them      *)
(* character by character, so lower(), upper(), strip(), split() and the   *)
(* substring test `k in s` are modelled by what they do to the characters. *)
(***************************************************************************)
EXTENDS Integers, Sequences, FiniteSets, TLC

----------------------------------------------------------------------------
(* Bounds of the model. *)

(* A scan document holds at most MaxRecords records: its ReportHost elements
   and their ReportItem elements, counted together. *)
MaxRecords == 4

(* A finding handed to the mapper is built from at most MaxParts pieces: the
   words of its plugin name, the words of its description and its CVE
   identifiers, counted together. *)
MaxParts == 3

(* The process-wide string-hash seed that decides the iteration order of a
   Python set ranges over 0..MaxSeed. *)
MaxSeed == 2

(* A HostProperties element holds at most MaxTags tag elements. *)
MaxTags == 3

(* The weight of a severity level in the risk score ranges over 0..MaxWeight. *)
MaxWeight == 5

(* A document whose findings are classified holds at most MaxClassified
   ReportHost and ReportItem elements, counted together. *)
MaxClassified == 3

(* A report handed to the exporters holds at most MaxExported hosts and
   findings, counted together. *)
MaxExported == 3

----------------------------------------------------------------------------
(* Python str operations. *)

Range(f) == {f[i] : i \in DOMAIN f}

(* The characters of the model's alphabet with their code points, as runs of
   consecutive code points: <<code point of the first character, run>>. *)
CodeRuns ==
    << <<9, "\t\n">>, <<13, "\r">>, <<32, " ">>, <<40, "()*+,-./0123456789:">>,
       <<65, "ABCDEFGHIJKLMNOPQRSTUVWXYZ">>, <<95, "_">>,
       <<97, "abcdefghijklmnopqrstuvwxyz">> >>

CharAt(s, i) == SubSeq(s, i, i)

AlphabetChars ==
    UNION {{CharAt(CodeRuns[r][2], i) : i \in 1..Len(CodeRuns[r][2])} : r \in DOMAIN CodeRuns}

(* ord(c) *)
Ord ==
    [c \in AlphabetChars |->
        LET r == CHOOSE q \in DOMAIN CodeRuns :
                     \E i \in 1..Len(CodeRuns[q][2]) : CharAt(CodeRuns[q][2], i) = c
            i == CHOOSE j \in 1..Len(CodeRuns[r][2]) : CharAt(CodeRuns[r][2], j) = c
        IN  CodeRuns[r][1] + i - 1]

UpperLetters == "ABCDEFGHIJKLMNOPQRSTUVWXYZ"
LowerLetters == "abcdefghijklmnopqrstuvwxyz"

(* The lower-case letter of every upper-case letter, and the reverse. *)
ToLower ==
    [c \in {CharAt(UpperLetters, i) : i \in 1..26} |->
        CharAt(LowerLetters, CHOOSE i \in 1..26 : CharAt(UpperLetters, i) = c)]

ToUpper ==
    [c \in {CharAt(LowerLetters, i) : i \in 1..26} |->
        CharAt(UpperLetters, CHOOSE i \in 1..26 : CharAt(LowerLetters, i) = c)]

LowerChar(c) == IF c \in DOMAIN ToLower THEN ToLower[c] ELSE c

UpperChar(c) == IF c \in DOMAIN ToUpper THEN ToUpper[c] ELSE c

(* lower() left out. *)
Lower_Identity(s) == s

RECURSIVE Lower(_)
(* s.lower() *)
Lower(s) ==
    IF s = "" THEN "" ELSE LowerChar(CharAt(s, 1)) \o Lower(SubSeq(s, 2, Len(s)))

RECURSIVE Upper(_)
(* s.upper() *)
Upper(s) ==
    IF s = "" THEN "" ELSE UpperChar(CharAt(s, 1)) \o Upper(SubSeq(s, 2, Len(s)))

Whitespace == {" ", "\t", "\n", "\r"}

RECURSIVE LStrip(_)
LStrip(s) ==
    IF s # "" /\ CharAt(s, 1) \in Whitespace THEN LStrip(SubSeq(s, 2, Len(s))) ELSE s

RECURSIVE RStrip(_)
RStrip(s) ==
    IF s # "" /\ CharAt(s, Len(s)) \in Whitespace
    THEN RStrip(SubSeq(s, 1, Len(s) - 1)) ELSE s

(* s.strip() *)
Strip(s) == RStrip(LStrip(s))

(* k in s, for strings: k occurs in s as a substring *)
Contains(s, k) ==
    \E i \in 1..(Len(s) - Len(k) + 1) : SubSeq(s, i, i + Len(k) - 1) = k

(* s.split("(")[0]: the part of s before its first "(", all of s without one *)
SplitFirst(s, sep) ==
    IF Contains(s, sep)
    THEN LET i == CHOOSE j \in 1..Len(s) :
                      /\ CharAt(s, j) = sep
                      /\ \A k \in 1..(j - 1) : CharAt(s, k) # sep
         IN  SubSeq(s, 1, i - 1)
    ELSE s

RECURSIVE StrLess(_, _)
(* a < b on str: lexicographic by code point *)
StrLess(a, b) ==
    IF b = "" THEN FALSE
    ELSE IF a = "" THEN TRUE
    ELSE IF CharAt(a, 1) = CharAt(b, 1)
         THEN StrLess(SubSeq(a, 2, Len(a)), SubSeq(b, 2, Len(b)))
         ELSE Ord[CharAt(a, 1)] < Ord[CharAt(b, 1)]

RECURSIVE Insort(_, _)
(* x put into the ascending list l, after the entries that are not greater *)
Insort(l, x) ==
    IF l = <<>> THEN <<x>>
    ELSE IF StrLess(x, l[1]) THEN <<x>> \o l
    ELSE <<l[1]>> \o Insort(Tail(l), x)

(* sorted() left out. *)
Sorted_Unsorted(l) == l

RECURSIVE Sorted(_)
(* sorted(l) for a list of str *)
Sorted(l) ==
    IF l = <<>> THEN <<>> ELSE Insort(Sorted(SubSeq(l, 1, Len(l) - 1)), l[Len(l)])

RECURSIVE Ascending(_)
(* The elements of the set S of str, least first. *)
Ascending(S) ==
    IF S = {} THEN <<>>
    ELSE LET x == CHOOSE y \in S : \A z \in S : ~StrLess(z, y)
         IN  <<x>> \o Ascending(S \ {x})

(* list(S) for a set S of str: the elements in the set's iteration order, which
   the hash seed of the process decides.  The order for seed h is the ascending
   order rotated by h places, reversed for odd h. *)
SetToList(S, h) ==
    LET n   == Cardinality(S)
        asc == Ascending(S)
        rot == [i \in 1..n |-> asc[((i - 1 + h) % n) + 1]]
    IN  IF h % 2 = 1 THEN [i \in 1..n |-> rot[n + 1 - i]] ELSE rot

RECURSIVE Concat(_)
(* "".join(words) *)
Concat(words) ==
    IF words = <<>> THEN "" ELSE words[1] \o Concat(Tail(words))

(* The outcome of a call that may raise: the value returned, or the exception. *)
Ok(v) == [ok |-> TRUE, value |-> v]
Raise(type, message) == [ok |-> FALSE, type |-> type, message |-> message]

Digits == "0123456789"

DigitValue(c) == (CHOOSE i \in 1..10 : CharAt(Digits, i) = c) - 1

IsDigit(c) == \E i \in 1..10 : CharAt(Digits, i) = c

RECURSIVE DecimalValue(_)
(* The number written by the digits of s, underscores skipped. *)
DecimalValue(s) ==
    IF s = "" THEN 0
    ELSE IF CharAt(s, Len(s)) = "_" THEN DecimalValue(SubSeq(s, 1, Len(s) - 1))
    ELSE 10 * DecimalValue(SubSeq(s, 1, Len(s) - 1)) + DigitValue(CharAt(s, Len(s)))

(* int(s) for a str: surrounding whitespace is dropped, a sign may lead, and the
   rest is digits with single underscores between them; anything else raises
   ValueError. *)
PyInt(s) ==
    LET t      == Strip(s)
        signed == t # "" /\ CharAt(t, 1) \in {"+", "-"}
        body   == IF signed THEN SubSeq(t, 2, Len(t)) ELSE t
        valid  == /\ body # ""
                  /\ \A i \in 1..Len(body) : IsDigit(CharAt(body, i)) \/ CharAt(body, i) = "_"
                  /\ IsDigit(CharAt(body, 1)) /\ IsDigit(CharAt(body, Len(body)))
                  /\ \A i \in 1..(Len(body) - 1) :
                         ~(CharAt(body, i) = "_" /\ CharAt(body, i + 1) = "_")
    IN  IF ~valid THEN Raise("ValueError", "invalid literal for int()")
        ELSE IF signed /\ CharAt(t, 1) = "-" THEN Ok(0 - DecimalValue(body))
        ELSE Ok(DecimalValue(body))

----------------------------------------------------------------------------
(* The static tables of the control catalog. *)

(* NISTMapper._initialize_control_families: the keys of self.control_families. *)
FamilyIds ==
    <<"AC", "AT", "AU", "CA", "CM", "CP", "IA", "IR", "MA", "MP", "PE", "PL", "PM", "PS", "PT", "RA", "SA", "SC", "SI", "SR">>

(* NISTMapper._initialize_controls: one row <<key, control_id, family_id,
   priority, baseline>> per entry of self.controls, in insertion order. *)
ControlRows == <<
    <<"AC-1", "AC-1", "AC", "P1", <<"LOW", "MODERATE", "HIGH">>>>,
    <<"AC-2", "AC-2", "AC", "P1", <<"LOW", "MODERATE", "HIGH">>>>,
    <<"AC-3", "AC-3", "AC", "P1", <<"LOW", "MODERATE", "HIGH">>>>,
    <<"AC-4", "AC-4", "AC", "P1", <<"MODERATE", "HIGH">>>>,
    <<"AC-5", "AC-5", "AC", "P1", <<"MODERATE", "HIGH">>>>,
    <<"AC-6", "AC-6", "AC", "P1", <<"LOW", "MODERATE", "HIGH">>>>,
    <<"AC-7", "AC-7", "AC", "P1", <<"LOW", "MODERATE", "HIGH">>>>,
    <<"AC-8", "AC-8", "AC", "P1", <<"LOW", "MODERATE", "HIGH">>>>,
    <<"AC-10", "AC-10", "AC", "P2", <<"HIGH">>>>,
    <<"AC-11", "AC-11", "AC", "P1", <<"MODERATE", "HIGH">>>>,
    <<"AC-12", "AC-12", "AC", "P2", <<"MODERATE", "HIGH">>>>,
    <<"AC-14", "AC-14", "AC", "P1", <<"LOW", "MODERATE", "HIGH">>>>,
    <<"AC-17", "AC-17", "AC", "P1", <<"LOW", "MODERATE", "HIGH">>>>,
    <<"AC-18", "AC-18", "AC", "P1", <<"LOW", "MODERATE", "HIGH">>>>,
    <<"AC-19", "AC-19", "AC", "P1", <<"LOW", "MODERATE", "HIGH">>>>,
    <<"AC-20", "AC-20", "AC", "P1", <<"LOW", "MODERATE", "HIGH">>>>,
    <<"AC-21", "AC-21", "AC", "P2", <<"MODERATE", "HIGH">>>>,
    <<"AC-22", "AC-22", "AC", "P2", <<"LOW", "MODERATE", "HIGH">>>>,
    <<"AT-1", "AT-1", "AT", "P1", <<"LOW", "MODERATE", "HIGH">>>>,
    <<"AT-2", "AT-2", "AT", "P1", <<"LOW", "MODERATE", "HIGH">>>>,
    <<"AT-3", "AT-3", "AT", "P1", <<"LOW", "MODERATE", "HIGH">>>>,
    <<"AT-4", "AT-4", "AT", "P3", <<"LOW", "MODERATE", "HIGH">>>>,
    <<"AU-1", "AU-1", "AU", "P1", <<"LOW", "MODERATE", "HIGH">>>>,
    <<"AU-2", "AU-2", "AU", "P1", <<"LOW", "MODERATE", "HIGH">>>>,
    <<"AU-3", "AU-3", "AU", "P1", <<"LOW", "MODERATE", "HIGH">>>>,
    <<"AU-4", "AU-4", "AU", "P1", <<"LOW", "MODERATE", "HIGH">>>>,
    <<"AU-5", "AU-5", "AU", "P1", <<"LOW", "MODERATE", "HIGH">>>>,
    <<"AU-6", "AU-6", "AU", "P1", <<"LOW", "MODERATE", "HIGH">>>>,
    <<"AU-7", "AU-7", "AU", "P2", <<"MODERATE", "HIGH">>>>,
    <<"AU-8", "AU-8", "AU", "P1", <<"LOW", "MODERATE", "HIGH">>>>,
    <<"AU-9", "AU-9", "AU", "P1", <<"LOW", "MODERATE", "HIGH">>>>,
    <<"AU-10", "AU-10", "AU", "P1", <<"HIGH">>>>,
    <<"AU-11", "AU-11", "AU", "P3", <<"LOW", "MODERATE", "HIGH">>>>,
    <<"AU-12", "AU-12", "AU", "P1", <<"LOW", "MODERATE", "HIGH">>>>,
    <<"CA-1", "CA-1", "CA", "P1", <<"LOW", "MODERATE", "HIGH">>>>,
    <<"CA-2", "CA-2", "CA", "P1", <<"LOW", "MODERATE", "HIGH">>>>,
    <<"CA-3", "CA-3", "CA", "P1", <<"LOW", "MODERATE", "HIGH">>>>,
    <<"CA-5", "CA-5", "CA", "P3", <<"LOW", "MODERATE", "HIGH">>>>,
    <<"CA-6", "CA-6", "CA", "P1", <<"LOW", "MODERATE", "HIGH">>>>,
    <<"CA-7", "CA-7", "CA", "P1", <<"LOW", "MODERATE", "HIGH">>>>,
    <<"CA-8", "CA-8", "CA", "P2", <<"HIGH">>>>,
    <<"CA-9", "CA-9", "CA", "P2", <<"LOW", "MODERATE", "HIGH">>>>,
    <<"CM-1", "CM-1", "CM", "P1", <<"LOW", "MODERATE", "HIGH">>>>,
    <<"CM-2", "CM-2", "CM", "P1", <<"LOW", "MODERATE", "HIGH">>>>,
    <<"CM-3", "CM-3", "CM", "P1", <<"MODERATE", "HIGH">>>>,
    <<"CM-4", "CM-4", "CM", "P2", <<"MODERATE", "HIGH">>>>,
    <<"CM-5", "CM-5", "CM", "P1", <<"MODERATE", "HIGH">>>>,
    <<"CM-6", "CM-6", "CM", "P1", <<"LOW", "MODERATE", "HIGH">>>>,
    <<"CM-7", "CM-7", "CM", "P1", <<"LOW", "MODERATE", "HIGH">>>>,
    <<"CM-8", "CM-8", "CM", "P1", <<"LOW", "MODERATE", "HIGH">>>>,
    <<"CM-9", "CM-9", "CM", "P1", <<"MODERATE", "HIGH">>>>,
    <<"CM-10", "CM-10", "CM", "P2", <<"LOW", "MODERATE", "HIGH">>>>,
    <<"CM-11", "CM-11", "CM", "P1", <<"LOW", "MODERATE", "HIGH">>>>,
    <<"CP-1", "CP-1", "CP", "P1", <<"LOW", "MODERATE", "HIGH">>>>,
    <<"CP-2", "CP-2", "CP", "P1", <<"LOW", "MODERATE", "HIGH">>>>,
    <<"CP-3", "CP-3", "CP", "P2", <<"LOW", "MODERATE", "HIGH">>>>,
    <<"CP-4", "CP-4", "CP", "P2", <<"LOW", "MODERATE", "HIGH">>>>,
    <<"CP-6", "CP-6", "CP", "P1", <<"MODERATE", "HIGH">>>>,
    <<"CP-7", "CP-7", "CP", "P1", <<"MODERATE", "HIGH">>>>,
    <<"CP-8", "CP-8", "CP", "P1", <<"MODERATE", "HIGH">>>>,
    <<"CP-9", "CP-9", "CP", "P1", <<"LOW", "MODERATE", "HIGH">>>>,
    <<"CP-10", "CP-10", "CP", "P1", <<"LOW", "MODERATE", "HIGH">>>>,
    <<"IA-1", "IA-1", "IA", "P1", <<"LOW", "MODERATE", "HIGH">>>>,
    <<"IA-2", "IA-2", "IA", "P1", <<"LOW", "MODERATE", "HIGH">>>>,
    <<"IA-3", "IA-3", "IA", "P1", <<"MODERATE", "HIGH">>>>,
    <<"IA-4", "IA-4", "IA", "P1", <<"LOW", "MODERATE", "HIGH">>>>,
    <<"IA-5", "IA-5", "IA", "P1", <<"LOW", "MODERATE", "HIGH">>>>,
    <<"IA-6", "IA-6", "IA", "P2", <<"LOW", "MODERATE", "HIGH">>>>,
    <<"IA-7", "IA-7", "IA", "P1", <<"LOW", "MODERATE", "HIGH">>>>,
    <<"IA-8", "IA-8", "IA", "P1", <<"LOW", "MODERATE", "HIGH">>>>,
    <<"IA-11", "IA-11", "IA", "P1", <<"MODERATE", "HIGH">>>>,
    <<"IA-12", "IA-12", "IA", "P1", <<"MODERATE", "HIGH">>>>,
    <<"IR-1", "IR-1", "IR", "P1", <<"LOW", "MODERATE", "HIGH">>>>,
    <<"IR-2", "IR-2", "IR", "P2", <<"LOW", "MODERATE", "HIGH">>>>,
    <<"IR-3", "IR-3", "IR", "P2", <<"MODERATE", "HIGH">>>>,
    <<"IR-4", "IR-4", "IR", "P1", <<"LOW", "MODERATE", "HIGH">>>>,
    <<"IR-5", "IR-5", "IR", "P1", <<"LOW", "MODERATE", "HIGH">>>>,
    <<"IR-6", "IR-6", "IR", "P1", <<"LOW", "MODERATE", "HIGH">>>>,
    <<"IR-7", "IR-7", "IR", "P2", <<"LOW", "MODERATE", "HIGH">>>>,
    <<"IR-8", "IR-8", "IR", "P1", <<"LOW", "MODERATE", "HIGH">>>>,
    <<"MA-1", "MA-1", "MA", "P1", <<"LOW", "MODERATE", "HIGH">>>>,
    <<"MA-2", "MA-2", "MA", "P2", <<"LOW", "MODERATE", "HIGH">>>>,
    <<"MA-3", "MA-3", "MA", "P2", <<"MODERATE", "HIGH">>>>,
    <<"MA-4", "MA-4", "MA", "P1", <<"LOW", "MODERATE", "HIGH">>>>,
    <<"MA-5", "MA-5", "MA", "P2", <<"LOW", "MODERATE", "HIGH">>>>,
    <<"MA-6", "MA-6", "MA", "P2", <<"MODERATE", "HIGH">>>>,
    <<"MP-1", "MP-1", "MP", "P1", <<"LOW", "MODERATE", "HIGH">>>>,
    <<"MP-2", "MP-2", "MP", "P1", <<"LOW", "MODERATE", "HIGH">>>>,
    <<"MP-3", "MP-3", "MP", "P2", <<"MODERATE", "HIGH">>>>,
    <<"MP-4", "MP-4", "MP", "P1", <<"MODERATE", "HIGH">>>>,
    <<"MP-5", "MP-5", "MP", "P1", <<"MODERATE", "HIGH">>>>,
    <<"MP-6", "MP-6", "MP", "P1", <<"LOW", "MODERATE", "HIGH">>>>,
    <<"MP-7", "MP-7", "MP", "P1", <<"LOW", "MODERATE", "HIGH">>>>,
    <<"PE-1", "PE-1", "PE", "P1", <<"LOW", "MODERATE", "HIGH">>>>,
    <<"PE-2", "PE-2", "PE", "P1", <<"LOW", "MODERATE", "HIGH">>>>,
    <<"PE-3", "PE-3", "PE", "P1", <<"LOW", "MODERATE", "HIGH">>>>,
    <<"PE-4", "PE-4", "PE", "P1", <<"MODERATE", "HIGH">>>>,
    <<"PE-5", "PE-5", "PE", "P2", <<"MODERATE", "HIGH">>>>,
    <<"PE-6", "PE-6", "PE", "P1", <<"LOW", "MODERATE", "HIGH">>>>,
    <<"PE-8", "PE-8", "PE", "P3", <<"LOW", "MODERATE", "HIGH">>>>,
    <<"PE-9", "PE-9", "PE", "P1", <<"MODERATE", "HIGH">>>>,
    <<"PE-10", "PE-10", "PE", "P1", <<"MODERATE", "HIGH">>>>,
    <<"PE-11", "PE-11", "PE", "P1", <<"MODERATE", "HIGH">>>>,
    <<"PE-12", "PE-12", "PE", "P1", <<"LOW", "MODERATE", "HIGH">>>>,
    <<"PE-13", "PE-13", "PE", "P1", <<"LOW", "MODERATE", "HIGH">>>>,
    <<"PE-14", "PE-14", "PE", "P1", <<"LOW", "MODERATE", "HIGH">>>>,
    <<"PE-15", "PE-15", "PE", "P1", <<"LOW", "MODERATE", "HIGH">>>>,
    <<"PE-16", "PE-16", "PE", "P2", <<"LOW", "MODERATE", "HIGH">>>>,
    <<"PL-1", "PL-1", "PL", "P1", <<"LOW", "MODERATE", "HIGH">>>>,
    <<"PL-2", "PL-2", "PL", "P1", <<"LOW", "MODERATE", "HIGH">>>>,
    <<"PL-4", "PL-4", "PL", "P2", <<"LOW", "MODERATE", "HIGH">>>>,
    <<"PL-8", "PL-8", "PL", "P1", <<"MODERATE", "HIGH">>>>,
    <<"PL-10", "PL-10", "PL", "P1", <<"LOW", "MODERATE", "HIGH">>>>,
    <<"PL-11", "PL-11", "PL", "P1", <<"LOW", "MODERATE", "HIGH">>>>,
    <<"PM-1", "PM-1", "PM", "P1", <<"LOW", "MODERATE", "HIGH">>>>,
    <<"PM-2", "PM-2", "PM", "P1", <<"LOW", "MODERATE", "HIGH">>>>,
    <<"PM-3", "PM-3", "PM", "P1", <<"LOW", "MODERATE", "HIGH">>>>,
    <<"PM-4", "PM-4", "PM", "P1", <<"LOW", "MODERATE", "HIGH">>>>,
    <<"PM-5", "PM-5", "PM", "P1", <<"LOW", "MODERATE", "HIGH">>>>,
    <<"PM-6", "PM-6", "PM", "P1", <<"LOW", "MODERATE", "HIGH">>>>,
    <<"PM-9", "PM-9", "PM", "P1", <<"LOW", "MODERATE", "HIGH">>>>,
    <<"PM-10", "PM-10", "PM", "P1", <<"LOW", "MODERATE", "HIGH">>>>,
    <<"PM-11", "PM-11", "PM", "P1", <<"LOW", "MODERATE", "HIGH">>>>,
    <<"PM-12", "PM-12", "PM", "P1", <<"MODERATE", "HIGH">>>>,
    <<"PM-14", "PM-14", "PM", "P1", <<"LOW", "MODERATE", "HIGH">>>>,
    <<"PM-16", "PM-16", "PM", "P1", <<"LOW", "MODERATE", "HIGH">>>>,
    <<"PS-1", "PS-1", "PS", "P1", <<"LOW", "MODERATE", "HIGH">>>>,
    <<"PS-2", "PS-2", "PS", "P1", <<"LOW", "MODERATE", "HIGH">>>>,
    <<"PS-3", "PS-3", "PS", "P1", <<"LOW", "MODERATE", "HIGH">>>>,
    <<"PS-4", "PS-4", "PS", "P1", <<"LOW", "MODERATE", "HIGH">>>>,
    <<"PS-5", "PS-5", "PS", "P2", <<"LOW", "MODERATE", "HIGH">>>>,
    <<"PS-6", "PS-6", "PS", "P3", <<"LOW", "MODERATE", "HIGH">>>>,
    <<"PS-7", "PS-7", "PS", "P1", <<"LOW", "MODERATE", "HIGH">>>>,
    <<"PS-8", "PS-8", "PS", "P3", <<"LOW", "MODERATE", "HIGH">>>>,
    <<"PT-1", "PT-1", "PT", "P1", <<"LOW", "MODERATE", "HIGH">>>>,
    <<"PT-2", "PT-2", "PT", "P1", <<"LOW", "MODERATE", "HIGH">>>>,
    <<"PT-3", "PT-3", "PT", "P1", <<"LOW", "MODERATE", "HIGH">>>>,
    <<"PT-4", "PT-4", "PT", "P1", <<"MODERATE", "HIGH">>>>,
    <<"PT-5", "PT-5", "PT", "P1", <<"LOW", "MODERATE", "HIGH">>>>,
    <<"PT-6", "PT-6", "PT", "P1", <<"LOW", "MODERATE", "HIGH">>>>,
    <<"PT-7", "PT-7", "PT", "P1", <<"MODERATE", "HIGH">>>>,
    <<"RA-1", "RA-1", "RA", "P1", <<"LOW", "MODERATE", "HIGH">>>>,
    <<"RA-2", "RA-2", "RA", "P1", <<"LOW", "MODERATE", "HIGH">>>>,
    <<"RA-3", "RA-3", "RA", "P1", <<"LOW", "MODERATE", "HIGH">>>>,
    <<"RA-5", "RA-5", "RA", "P1", <<"LOW", "MODERATE", "HIGH">>>>,
    <<"RA-7", "RA-7", "RA", "P1", <<"LOW", "MODERATE", "HIGH">>>>,
    <<"RA-9", "RA-9", "RA", "P1", <<"HIGH">>>>,
    <<"RA-10", "RA-10", "RA", "P2", <<"HIGH">>>>,
    <<"SA-1", "SA-1", "SA", "P1", <<"LOW", "MODERATE", "HIGH">>>>,
    <<"SA-2", "SA-2", "SA", "P1", <<"LOW", "MODERATE", "HIGH">>>>,
    <<"SA-3", "SA-3", "SA", "P1", <<"LOW", "MODERATE", "HIGH">>>>,
    <<"SA-4", "SA-4", "SA", "P1", <<"LOW", "MODERATE", "HIGH">>>>,
    <<"SA-5", "SA-5", "SA", "P2", <<"LOW", "MODERATE", "HIGH">>>>,
    <<"SA-8", "SA-8", "SA", "P1", <<"LOW", "MODERATE", "HIGH">>>>,
    <<"SA-9", "SA-9", "SA", "P1", <<"LOW", "MODERATE", "HIGH">>>>,
    <<"SA-10", "SA-10", "SA", "P1", <<"MODERATE", "HIGH">>>>,
    <<"SA-11", "SA-11", "SA", "P1", <<"MODERATE", "HIGH">>>>,
    <<"SA-15", "SA-15", "SA", "P2", <<"MODERATE", "HIGH">>>>,
    <<"SA-22", "SA-22", "SA", "P1", <<"MODERATE", "HIGH">>>>,
    <<"SC-1", "SC-1", "SC", "P1", <<"LOW", "MODERATE", "HIGH">>>>,
    <<"SC-2", "SC-2", "SC", "P1", <<"MODERATE", "HIGH">>>>,
    <<"SC-4", "SC-4", "SC", "P1", <<"MODERATE", "HIGH">>>>,
    <<"SC-5", "SC-5", "SC", "P1", <<"LOW", "MODERATE", "HIGH">>>>,
    <<"SC-7", "SC-7", "SC", "P1", <<"LOW", "MODERATE", "HIGH">>>>,
    <<"SC-8", "SC-8", "SC", "P1", <<"MODERATE", "HIGH">>>>,
    <<"SC-10", "SC-10", "SC", "P2", <<"MODERATE", "HIGH">>>>,
    <<"SC-12", "SC-12", "SC", "P1", <<"LOW", "MODERATE", "HIGH">>>>,
    <<"SC-13", "SC-13", "SC", "P1", <<"LOW", "MODERATE", "HIGH">>>>,
    <<"SC-15", "SC-15", "SC", "P1", <<"LOW", "MODERATE", "HIGH">>>>,
    <<"SC-17", "SC-17", "SC", "P1", <<"MODERATE", "HIGH">>>>,
    <<"SC-18", "SC-18", "SC", "P2", <<"MODERATE", "HIGH">>>>,
    <<"SC-20", "SC-20", "SC", "P1", <<"LOW", "MODERATE", "HIGH">>>>,
    <<"SC-21", "SC-21", "SC", "P1", <<"LOW", "MODERATE", "HIGH">>>>,
    <<"SC-22", "SC-22", "SC", "P1", <<"LOW", "MODERATE", "HIGH">>>>,
    <<"SC-23", "SC-23", "SC", "P1", <<"MODERATE", "HIGH">>>>,
    <<"SC-28", "SC-28", "SC", "P1", <<"MODERATE", "HIGH">>>>,
    <<"SC-39", "SC-39", "SC", "P1", <<"LOW", "MODERATE", "HIGH">>>>,
    <<"SI-1", "SI-1", "SI", "P1", <<"LOW", "MODERATE", "HIGH">>>>,
    <<"SI-2", "SI-2", "SI", "P1", <<"LOW", "MODERATE", "HIGH">>>>,
    <<"SI-3", "SI-3", "SI", "P1", <<"LOW", "MODERATE", "HIGH">>>>,
    <<"SI-4", "SI-4", "SI", "P1", <<"LOW", "MODERATE", "HIGH">>>>,
    <<"SI-5", "SI-5", "SI", "P1", <<"LOW", "MODERATE", "HIGH">>>>,
    <<"SI-6", "SI-6", "SI", "P1", <<"HIGH">>>>,
    <<"SI-7", "SI-7", "SI", "P1", <<"MODERATE", "HIGH">>>>,
    <<"SI-8", "SI-8", "SI", "P2", <<"MODERATE", "HIGH">>>>,
    <<"SI-10", "SI-10", "SI", "P1", <<"MODERATE", "HIGH">>>>,
    <<"SI-11", "SI-11", "SI", "P2", <<"MODERATE", "HIGH">>>>,
    <<"SI-12", "SI-12", "SI", "P2", <<"LOW", "MODERATE", "HIGH">>>>,
    <<"SI-16", "SI-16", "SI", "P1", <<"MODERATE", "HIGH">>>>,
    <<"SR-1", "SR-1", "SR", "P1", <<"LOW", "MODERATE", "HIGH">>>>,
    <<"SR-2", "SR-2", "SR", "P1", <<"MODERATE", "HIGH">>>>,
    <<"SR-3", "SR-3", "SR", "P1", <<"MODERATE", "HIGH">>>>,
    <<"SR-4", "SR-4", "SR", "P1", <<"HIGH">>>>,
    <<"SR-5", "SR-5", "SR", "P1", <<"MODERATE", "HIGH">>>>,
    <<"SR-6", "SR-6", "SR", "P1", <<"MODERATE", "HIGH">>>>,
    <<"SR-8", "SR-8", "SR", "P2", <<"MODERATE", "HIGH">>>>,
    <<"SR-10", "SR-10", "SR", "P1", <<"HIGH">>>>,
    <<"SR-11", "SR-11", "SR", "P1", <<"MODERATE", "HIGH">>>>,
    <<"SR-12", "SR-12", "SR", "P1", <<"MODERATE", "HIGH">>>> >>

(* NISTMapper._initialize_cve_mappings: self.cve_to_controls, one row
   <<CVE identifier, control list>> per entry. *)
CveRows == <<
    <<"CVE-2014-0160", <<"SC-8", "SC-12", "SC-13", "RA-5">>>>,
    <<"CVE-2014-3566", <<"SC-8", "SC-13">>>>,
    <<"CVE-2015-0204", <<"SC-8", "SC-13">>>>,
    <<"CVE-2015-4000", <<"SC-8", "SC-13">>>>,
    <<"CVE-2016-0800", <<"SC-8", "SC-13">>>>,
    <<"CVE-2016-2183", <<"SC-8", "SC-13">>>>,
    <<"CVE-2020-1472", <<"IA-2", "IA-5", "SC-8", "SC-23">>>>,
    <<"CVE-2017-0144", <<"SI-2", "CM-7", "SC-7", "RA-5">>>>,
    <<"CVE-2017-0145", <<"SI-2", "CM-7", "SC-7">>>>,
    <<"CVE-2019-0708", <<"SI-2", "AC-17", "CM-7">>>>,
    <<"CVE-2021-44228", <<"SI-2", "SI-10", "CM-7", "RA-5">>>>,
    <<"CVE-2021-45046", <<"SI-2", "SI-10", "CM-7">>>>,
    <<"CVE-2021-45105", <<"SI-2", "SI-10", "CM-7">>>>,
    <<"CVE-2022-22965", <<"SI-2", "SI-10", "CM-6">>>>,
    <<"CVE-2022-26134", <<"SI-2", "SI-10", "AC-6">>>>,
    <<"CVE-2023-44487", <<"SC-5", "SI-2">>>>,
    <<"CVE-2014-6271", <<"SI-2", "SI-10", "AC-6">>>>,
    <<"CVE-2014-7169", <<"SI-2", "SI-10", "AC-6">>>>,
    <<"CVE-2017-5638", <<"SI-2", "SI-10", "AC-3">>>>,
    <<"CVE-2021-41773", <<"SI-2", "AC-3", "CM-6">>>>,
    <<"CVE-2021-42013", <<"SI-2", "AC-3", "CM-6">>>>,
    <<"CVE-2018-11776", <<"SI-2", "AC-3", "SI-10">>>>,
    <<"CVE-2019-11510", <<"SI-2", "AC-17", "IA-5">>>>,
    <<"CVE-2020-0796", <<"SI-2", "SC-7", "CM-7">>>>,
    <<"CVE-2020-5902", <<"SI-2", "AC-3", "CM-6">>>>,
    <<"CVE-2021-22986", <<"SI-2", "AC-3", "CM-6">>>>,
    <<"CVE-2021-1675", <<"SI-2", "AC-6", "CM-6">>>>,
    <<"CVE-2021-34527", <<"SI-2", "AC-6", "CM-6">>>>,
    <<"CVE-2021-4034", <<"SI-2", "AC-6">>>>,
    <<"CVE-2022-0847", <<"SI-2", "AC-6">>>>,
    <<"CVE-2019-11581", <<"SI-2", "SI-10", "AC-3">>>>,
    <<"CVE-2019-18935", <<"SI-2", "AC-3", "AU-9">>>>,
    <<"CVE-2020-0688", <<"SI-2", "IA-5", "CM-6">>>>,
    <<"CVE-2021-26855", <<"SI-2", "AC-17", "CM-6">>>>,
    <<"CVE-2021-27065", <<"SI-2", "AC-6", "CM-6">>>>,
    <<"CVE-2021-34473", <<"SI-2", "AC-17", "CM-6">>>>,
    <<"CVE-2023-23397", <<"SI-2", "IA-5", "SC-8">>>>,
    <<"CVE-2012-2122", <<"IA-5", "IA-2", "AU-2">>>>,
    <<"CVE-2020-1938", <<"SI-2", "SC-7", "CM-7">>>>,
    <<"CVE-2020-14882", <<"SI-2", "AC-3", "CM-6">>>>,
    <<"CVE-2020-14883", <<"SI-2", "AC-3", "CM-6">>>>,
    <<"CVE-2020-25213", <<"SI-2", "CM-6", "AC-3">>>>,
    <<"CVE-2021-22205", <<"SI-2", "SI-10", "CM-6">>>> >>

(* NISTMapper._initialize_category_mappings: self.category_to_controls. *)
CategoryRows == <<
    <<"Missing Patches", <<"SI-2", "CM-3", "CM-6", "RA-5">>>>,
    <<"Outdated Software", <<"SI-2", "SA-22", "CM-8">>>>,
    <<"End of Life Software", <<"SA-22", "SI-2", "PM-5">>>>,
    <<"Unsupported Software", <<"SA-22", "SI-2", "CM-8">>>>,
    <<"Weak Encryption", <<"SC-8", "SC-12", "SC-13", "SC-28">>>>,
    <<"Weak SSL/TLS", <<"SC-8", "SC-13", "CM-6">>>>,
    <<"Expired Certificates", <<"SC-17", "SC-12", "IA-5">>>>,
    <<"Self-Signed Certificates", <<"SC-17", "SC-12">>>>,
    <<"Missing Encryption", <<"SC-8", "SC-28", "MP-5">>>>,
    <<"Weak Authentication", <<"IA-2", "IA-5", "IA-11">>>>,
    <<"Default Credentials", <<"IA-5", "CM-6", "CM-2">>>>,
    <<"Weak Passwords", <<"IA-5", "AC-7">>>>,
    <<"Missing MFA", <<"IA-2", "AC-17">>>>,
    <<"Password Policy", <<"IA-5", "AC-7", "CM-6">>>>,
    <<"Session Management", <<"SC-23", "AC-12", "IA-11">>>>,
    <<"Access Control", <<"AC-2", "AC-3", "AC-6">>>>,
    <<"Excessive Privileges", <<"AC-6", "AC-2", "CM-5">>>>,
    <<"Least Privilege", <<"AC-6", "CM-5">>>>,
    <<"Account Management", <<"AC-2", "PS-4", "PS-5">>>>,
    <<"Orphaned Accounts", <<"AC-2", "PS-4">>>>,
    <<"Configuration Issues", <<"CM-6", "CM-2", "CM-7">>>>,
    <<"Misconfiguration", <<"CM-6", "CM-2">>>>,
    <<"Insecure Defaults", <<"CM-6", "CM-2", "SA-4">>>>,
    <<"Unnecessary Services", <<"CM-7", "CM-2">>>>,
    <<"Open Ports", <<"CM-7", "SC-7">>>>,
    <<"Unnecessary Features", <<"CM-7">>>>,
    <<"Network Security", <<"SC-7", "AC-4", "SI-4">>>>,
    <<"Remote Access", <<"AC-17", "IA-2", "SC-8">>>>,
    <<"Wireless Security", <<"AC-18", "SC-8">>>>,
    <<"Boundary Protection", <<"SC-7", "AC-4">>>>,
    <<"Network Segmentation", <<"SC-7", "AC-4">>>>,
    <<"Input Validation", <<"SI-10", "SC-18">>>>,
    <<"SQL Injection", <<"SI-10", "SA-11">>>>,
    <<"Cross-Site Scripting", <<"SI-10", "SA-11">>>>,
    <<"Command Injection", <<"SI-10", "AC-6">>>>,
    <<"Path Traversal", <<"SI-10", "AC-3">>>>,
    <<"Logging Issues", <<"AU-2", "AU-3", "AU-12">>>>,
    <<"Insufficient Logging", <<"AU-2", "AU-12">>>>,
    <<"Missing Audit", <<"AU-2", "AU-6">>>>,
    <<"Log Protection", <<"AU-9", "AU-11">>>>,
    <<"Malware Protection", <<"SI-3", "SI-4">>>>,
    <<"Antivirus", <<"SI-3", "CM-6">>>>,
    <<"Missing EDR", <<"SI-3", "SI-4">>>>,
    <<"Data Protection", <<"SC-28", "MP-2", "MP-4">>>>,
    <<"Data at Rest", <<"SC-28", "MP-4">>>>,
    <<"Media Protection", <<"MP-2", "MP-4", "MP-6">>>>,
    <<"Data Leakage", <<"AC-4", "SC-7", "SI-4">>>>,
    <<"Incident Response", <<"IR-4", "IR-5", "IR-6">>>>,
    <<"Security Monitoring", <<"SI-4", "AU-6", "IR-5">>>>,
    <<"Vulnerability Scanning", <<"RA-5", "CA-2", "CA-7">>>>,
    <<"Vulnerability Management", <<"RA-5", "SI-2", "CA-5">>>>,
    <<"Risk Assessment", <<"RA-3", "RA-5">>>>,
    <<"Backup Issues", <<"CP-9", "CP-10">>>>,
    <<"Disaster Recovery", <<"CP-2", "CP-7", "CP-10">>>>,
    <<"Business Continuity", <<"CP-2", "CP-4">>>>,
    <<"Physical Security", <<"PE-2", "PE-3", "PE-6">>>>,
    <<"Personnel Security", <<"PS-2", "PS-3", "PS-4">>>>,
    <<"Security Awareness", <<"AT-2", "AT-3">>>>,
    <<"Supply Chain", <<"SR-2", "SR-3", "SR-6">>>>,
    <<"Third Party Risk", <<"SA-9", "SR-6", "SA-4">>>>,
    <<"Vendor Management", <<"SA-9", "SR-6">>>>,
    <<"PII Protection", <<"PT-2", "PT-3", "PT-5">>>>,
    <<"Privacy", <<"PT-1", "PT-2", "PT-4">>>>,
    <<"General Security", <<"SI-2", "CM-6">>>>,
    <<"Unknown", <<"SI-2">>>> >>

(* categorize_vulnerability: the local dict `patterns`, in declaration order
   (a Python dict iterates in insertion order). *)
patterns == <<
    <<"Missing Patches", <<"patch", "update", "security update", "kb", "hotfix", "cumulative update">>>>,
    <<"Weak SSL/TLS", <<"ssl", "tls", "sslv2", "sslv3", "tlsv1.0", "tlsv1.1", "weak cipher", "cipher suite">>>>,
    <<"Weak Encryption", <<"weak encryption", "des", "rc4", "md5", "sha1", "3des", "sweet32">>>>,
    <<"Default Credentials", <<"default password", "default credential", "default account", "factory default">>>>,
    <<"Weak Passwords", <<"weak password", "password policy", "password complexity", "blank password">>>>,
    <<"Missing MFA", <<"multi-factor", "mfa", "two-factor", "2fa">>>>,
    <<"Outdated Software", <<"outdated", "unsupported", "end of life", "eol", "obsolete", "deprecated">>>>,
    <<"Unnecessary Services", <<"service detection", "unnecessary service", "unused service", "unneeded">>>>,
    <<"Open Ports", <<"open port", "exposed port", "listening port">>>>,
    <<"Configuration Issues", <<"configuration", "misconfiguration", "misconfigured", "hardening">>>>,
    <<"SQL Injection", <<"sql injection", "sqli", "blind sql">>>>,
    <<"Cross-Site Scripting", <<"cross-site scripting", "xss", "script injection">>>>,
    <<"Command Injection", <<"command injection", "os command", "shell injection", "code injection">>>>,
    <<"Path Traversal", <<"path traversal", "directory traversal", "../ ", "file inclusion">>>>,
    <<"Remote Access", <<"remote access", "rdp", "ssh", "vnc", "telnet">>>>,
    <<"Wireless Security", <<"wireless", "wifi", "wpa", "wep", "802.11">>>>,
    <<"Logging Issues", <<"logging", "audit", "event log">>>>,
    <<"Malware Protection", <<"antivirus", "anti-malware", "malware", "virus">>>>,
    <<"Backup Issues", <<"backup", "recovery", "restore">>>>,
    <<"Access Control", <<"access control", "permission", "privilege", "authorization">>>>,
    <<"Session Management", <<"session", "cookie", "timeout">>>>,
    <<"Input Validation", <<"input validation", "validation", "sanitization">>>>,
    <<"Expired Certificates", <<"expired certificate", "certificate expir">>>>,
    <<"Self-Signed Certificates", <<"self-signed", "untrusted certificate">>>>,
    <<"Vulnerability Scanning", <<"vulnerability scan", "vulnerability assessment">>>> >>

(* The value None where a NISTControl is expected. *)
None == [none |-> TRUE]

(* Element.text of an element without text: None where a str is expected. *)
NoText == "<None>"

(* self.control_families after _initialize_control_families *)
InitialFamilies ==
    [f \in Range(FamilyIds) |-> [family_id |-> f]]

(* self.controls after _initialize_controls *)
InitialControls ==
    [k \in {ControlRows[i][1] : i \in DOMAIN ControlRows} |->
        LET row == ControlRows[CHOOSE i \in DOMAIN ControlRows : ControlRows[i][1] = k]
        IN  [control_id |-> row[2], family_id |-> row[3],
             priority |-> row[4], baseline |-> row[5]]]

(* self.cve_to_controls after _initialize_cve_mappings *)
InitialCveToControls ==
    [k \in {CveRows[i][1] : i \in DOMAIN CveRows} |->
        CveRows[CHOOSE i \in DOMAIN CveRows : CveRows[i][1] = k][2]]

(* self.category_to_controls after _initialize_category_mappings *)
InitialCategoryToControls ==
    [k \in {CategoryRows[i][1] : i \in DOMAIN CategoryRows} |->
        CategoryRows[CHOOSE i \in DOMAIN CategoryRows : CategoryRows[i][1] = k][2]]

----------------------------------------------------------------------------
VARIABLES
    control_families,       \* NISTMapper.control_families
    controls,               \* NISTMapper.controls
    cve_to_controls,        \* NISTMapper.cve_to_controls
    category_to_controls,   \* NISTMapper.category_to_controls
    plugin_name,            \* argument plugin_name of the mapper calls
    description,            \* argument description of the mapper calls
    cves,                   \* argument cves of the mapper calls
    control_id,             \* argument control_id of get_control_details
    plugin_ids,             \* argument plugin_ids of get_all_applicable_stigs
    document,               \* the file at NessusParser.file_path
    root,                   \* NessusParser.root
    report,                 \* VulnerabilityProcessor.report
    weights,                \* the weight of each severity level in the risk score
    analysis_data,          \* the analysis data handed to the exporters
    op,                     \* the method called last, "" before any call
    result                  \* what that call returned

mapper == <<control_families, controls, cve_to_controls, category_to_controls>>
args == <<plugin_name, description, cves, control_id, plugin_ids>>
parser == <<document, root>>
processor == <<report, weights, analysis_data>>
vars == <<mapper, args, parser, processor, op, result>>

----------------------------------------------------------------------------
(* NISTMapper *)

(* AnyKeyword with the description left out of the test. *)
AnyKeyword_NameOnly(keywords, plugin_lower, desc_lower) ==
    \E i \in DOMAIN keywords : Contains(plugin_lower, keywords[i])

(* any(keyword in plugin_lower or keyword in desc_lower for keyword in keywords) *)
AnyKeyword(keywords, plugin_lower, desc_lower) ==
    \E i \in DOMAIN keywords :
        Contains(plugin_lower, keywords[i]) \/ Contains(desc_lower, keywords[i])

RECURSIVE FirstMatch_Last(_, _, _)
(* FirstMatch that keeps scanning after a hit: the last category with a hit wins. *)
FirstMatch_Last(i, plugin_lower, desc_lower) ==
    IF i > Len(patterns) THEN "General Security"
    ELSE LET later == FirstMatch_Last(i + 1, plugin_lower, desc_lower)
         IN  IF later # "General Security" THEN later
             ELSE IF \E k \in DOMAIN patterns[i][2] :
                         \/ Contains(plugin_lower, patterns[i][2][k])
                         \/ Contains(desc_lower, patterns[i][2][k])
                  THEN patterns[i][1]
                  ELSE "General Security"

RECURSIVE FirstMatch_SkipEntry(_, _, _)
(* FirstMatch that starts one entry late: the first entry is never tried. *)
FirstMatch_SkipEntry(i, plugin_lower, desc_lower) ==
    IF i + 1 > Len(patterns) THEN "General Security"
    ELSE IF AnyKeyword(patterns[i + 1][2], plugin_lower, desc_lower) THEN patterns[i + 1][1]
    ELSE FirstMatch_SkipEntry(i + 1, plugin_lower, desc_lower)

RECURSIVE FirstMatch(_, _, _)
(* for category, keywords in patterns.items(): ... return category; from entry
   i on, and the default after the last entry *)
FirstMatch(i, plugin_lower, desc_lower) ==
    IF i > Len(patterns) THEN "General Security"
    ELSE IF AnyKeyword(patterns[i][2], plugin_lower, desc_lower) THEN patterns[i][1]
    ELSE FirstMatch(i + 1, plugin_lower, desc_lower)

(* categorize_vulnerability that compares the texts as given. *)
categorize_vulnerability_CaseSensitive(name, desc) ==
    FirstMatch(1, name, desc)

categorize_vulnerability(name, desc) ==
    FirstMatch(1, Lower(name), Lower(desc))

(* The call of categorize_vulnerability with texts as the parser returns
   them: plugin_name.lower() and description.lower() raise on None. *)
categorize_text(name, desc) ==
    IF name = NoText \/ desc = NoText
    THEN Raise("AttributeError", "NoneType object has no attribute lower")
    ELSE Ok(categorize_vulnerability(name, desc))

(* CveControls that looks only the first CVE up. *)
CveControls_FirstOnly(cve_list) ==
    IF cve_list # <<>> /\ Strip(Upper(cve_list[1])) \in DOMAIN cve_to_controls
    THEN Range(cve_to_controls[Strip(Upper(cve_list[1]))]) ELSE {}

(* CveControls that looks the CVE up as it was given. *)
CveControls_Raw(cve_list) ==
    UNION {IF cve_list[i] \in DOMAIN cve_to_controls
           THEN Range(cve_to_controls[cve_list[i]]) ELSE {}
           : i \in DOMAIN cve_list}

(* The set `controls` after the loop over cves: the entries of the CVEs found
   in self.cve_to_controls after cve.upper().strip(). *)
CveControls(cve_list) ==
    UNION {LET cve_upper == Strip(Upper(cve_list[i]))
           IN  IF cve_upper \in DOMAIN cve_to_controls
               THEN Range(cve_to_controls[cve_upper]) ELSE {}
           : i \in DOMAIN cve_list}

(* get_controls_for_category that looks the category up in lower case. *)
get_controls_for_category_Lower(category) ==
    IF Lower(category) \in DOMAIN category_to_controls
    THEN category_to_controls[Lower(category)] ELSE <<>>

(* self.category_to_controls.get(category, []) *)
get_controls_for_category(category) ==
    IF category \in DOMAIN category_to_controls
    THEN category_to_controls[category] ELSE <<>>

(* MappedControls without the category step and without the default. *)
MappedControls_CveOnly(name, desc, cve_list) ==
    UNION {IF Strip(Upper(cve_list[i])) \in DOMAIN cve_to_controls
           THEN Range(cve_to_controls[Strip(Upper(cve_list[i]))]) ELSE {}
           : i \in DOMAIN cve_list}

(* The set `controls` when map_vulnerability_to_controls reaches its return. *)
MappedControls(name, desc, cve_list) ==
    LET category == categorize_vulnerability(name, desc)
        found == CveControls(cve_list) \cup Range(get_controls_for_category(category))
    IN  IF found = {} THEN {"SI-2"} ELSE found

(* map_vulnerability_to_controls in a process whose hash seed is h *)
map_vulnerability_to_controls(name, desc, cve_list, h) ==
    Sorted(SetToList(MappedControls(name, desc, cve_list), h))

(* The call of map_vulnerability_to_controls with texts as the parser returns
   them: the exception of categorize_vulnerability passes through. *)
map_text_to_controls(name, desc, cve_list, h) ==
    IF categorize_text(name, desc).ok
    THEN Ok(map_vulnerability_to_controls(name, desc, cve_list, h))
    ELSE categorize_text(name, desc)

(* get_control_details that looks the identifier up as it was given. *)
get_control_details_NoStrip(cid) ==
    IF cid \in DOMAIN controls THEN controls[cid] ELSE None

get_control_details(cid) ==
    LET base_id == IF Contains(cid, "(") THEN SplitFirst(cid, "(") ELSE cid
    IN  IF base_id \in DOMAIN controls THEN controls[base_id] ELSE None

(* get_control_priority *)
get_control_priority(cid) ==
    LET control == get_control_details(cid)
    IN  IF control # None THEN control.priority ELSE "P3"

(* self.cve_to_controls.get(cve, []) *)
get_controls_for_cve(cve) ==
    IF cve \in DOMAIN cve_to_controls THEN cve_to_controls[cve] ELSE <<>>

get_controls_by_family(family_id) ==
    [cid \in {c \in DOMAIN controls : controls[c].family_id = family_id} |-> controls[cid]]

get_controls_by_priority(priority) ==
    [cid \in {c \in DOMAIN controls : controls[c].priority = priority} |-> controls[cid]]

(* baseline in control.baseline, a list of baseline names *)
get_rmf_package_controls(baseline) ==
    [cid \in {c \in DOMAIN controls : baseline \in Range(controls[c].baseline)} |->
        controls[cid]]

RECURSIVE DetailsOf_Prepend(_)
(* DetailsOf that puts each definition in front of the list. *)
DetailsOf_Prepend(control_ids) ==
    IF control_ids = <<>> THEN <<>>
    ELSE LET control == get_control_details(control_ids[1])
         IN  DetailsOf_Prepend(Tail(control_ids)) \o
             (IF control # None THEN <<control>> ELSE <<>>)

RECURSIVE DetailsOf(_)
(* The loop of get_vulnerability_controls_with_details over control_ids. *)
DetailsOf(control_ids) ==
    IF control_ids = <<>> THEN <<>>
    ELSE LET control == get_control_details(control_ids[1])
         IN  (IF control # None THEN <<control>> ELSE <<>>) \o DetailsOf(Tail(control_ids))

get_vulnerability_controls_with_details(name, desc, cve_list, h) ==
    DetailsOf(map_vulnerability_to_controls(name, desc, cve_list, h))

(* The key that get_control_details looks up. *)
BaseId(cid) == IF Contains(cid, "(") THEN SplitFirst(cid, "(") ELSE cid

(* DictAfterGet for a lookup written with setdefault: a key that is missing
   is added to the dict with the default. *)
DictAfterGet_SetDefault(table, key) ==
    IF key \in DOMAIN table THEN table ELSE (key :> <<>>) @@ table

(* The dict after table.get(key, default): get() adds no key and changes no
   value. *)
DictAfterGet(table, key) == table

----------------------------------------------------------------------------
(* NessusParser.  A document that is well-formed XML is the record
     [wellformed |-> TRUE,
      policyName |-> the text of each Policy/policyName element,
      target     |-> for each preference element named TARGET, the text of
                     each of its value children,
      hosts      |-> the ReportHost elements]
   with the elements in document order.  A ReportHost element is
     [attrib |-> its attributes,
      props  |-> its HostProperties children, each the list of its tag
                 elements [attrib, text],
      items  |-> its ReportItem descendants, each [attrib, children] with
                 children the list of sub-elements [tag, text]].
   attrib is Element.attrib, a function from the names of the attributes that
   are present to their values, and text is Element.text. *)

(* The document when the file is not well-formed XML. *)
Malformed == [wellformed |-> FALSE]

(* element.get(key, default) *)
Get(attrib, key, default) ==
    IF key \in DOMAIN attrib THEN attrib[key] ELSE default

(* _get_text(element, tag_name): the text of the first child of that tag *)
_get_text(item, tag_name) ==
    IF \E i \in DOMAIN item.children : item.children[i].tag = tag_name
    THEN LET first == CHOOSE i \in DOMAIN item.children :
                          /\ item.children[i].tag = tag_name
                          /\ \A j \in 1..(i - 1) : item.children[j].tag # tag_name
         IN  item.children[first].text
    ELSE ""

(* ItemSeverity that reads item.attrib['severity'] without a default. *)
ItemSeverity_NoDefault(item) ==
    IF "severity" \in DOMAIN item.attrib THEN PyInt(item.attrib["severity"])
    ELSE Raise("KeyError", "severity")

(* int(item.get('severity', '0')) *)
ItemSeverity(item) == PyInt(Get(item.attrib, "severity", "0"))

(* Vulnerability(...) for one ReportItem; raises what int() raises *)
ParseItem(item) ==
    LET severity == ItemSeverity(item)
    IN  IF ~severity.ok THEN severity
        ELSE Ok([plugin_id       |-> Get(item.attrib, "pluginID", ""),
                 plugin_name     |-> Get(item.attrib, "pluginName", ""),
                 plugin_family   |-> Get(item.attrib, "pluginFamily", ""),
                 severity        |-> severity.value,
                 description     |-> _get_text(item, "description"),
                 solution        |-> _get_text(item, "solution"),
                 see_also        |-> _get_text(item, "see_also"),
                 cve             |-> _get_text(item, "cve"),
                 cvss_base_score |-> _get_text(item, "cvss_base_score"),
                 cvss_vector     |-> _get_text(item, "cvss_vector"),
                 port            |-> Get(item.attrib, "port", ""),
                 protocol        |-> Get(item.attrib, "protocol", ""),
                 service_name    |-> Get(item.attrib, "svc_name", ""),
                 plugin_output   |-> _get_text(item, "plugin_output")])

(* Collect for a loop that inserts at the head of the list instead of
   appending: the list comes out in reverse order. *)
Collect_Prepend(outcomes) ==
    IF \E i \in DOMAIN outcomes : ~outcomes[i].ok
    THEN outcomes[CHOOSE i \in DOMAIN outcomes :
                      ~outcomes[i].ok /\ \A j \in 1..(i - 1) : outcomes[j].ok]
    ELSE Ok([i \in DOMAIN outcomes |-> outcomes[Len(outcomes) + 1 - i].value])

(* The outcome of a loop that appends the value of outcomes[1], outcomes[2], ...
   to a list: the first exception raised, the list when none is. *)
Collect(outcomes) ==
    IF \E i \in DOMAIN outcomes : ~outcomes[i].ok
    THEN outcomes[CHOOSE i \in DOMAIN outcomes :
                      ~outcomes[i].ok /\ \A j \in 1..(i - 1) : outcomes[j].ok]
    ELSE Ok([i \in DOMAIN outcomes |-> outcomes[i].value])

_parse_host_vulnerabilities(host_elem) ==
    Collect([i \in DOMAIN host_elem.items |-> ParseItem(host_elem.items[i])])

(* tag.text or '' *)
TextOrEmpty(text) == IF text = NoText THEN "" ELSE text

RECURSIVE ApplyTags_NameFirst(_, _)
(* ApplyTags in which the name attribute of the host wins: a host-ip tag sets
   props.ip only while it is empty. *)
ApplyTags_NameFirst(props, tags) ==
    IF tags = <<>> THEN props
    ELSE LET name  == Get(tags[1].attrib, "name", "")
             value == TextOrEmpty(tags[1].text)
             next  == CASE name = "host-ip" /\ props.ip = "" -> [props EXCEPT !.ip = value]
                        [] name = "hostname"         -> [props EXCEPT !.hostname = value]
                        [] name = "operating-system" -> [props EXCEPT !.os = value]
                        [] name = "mac-address"      -> [props EXCEPT !.mac_address = value]
                        [] name = "netbios-name"     -> [props EXCEPT !.netbios_name = value]
                        [] name = "fqdn"             -> [props EXCEPT !.fqdn = value]
                        [] name = "HOST_START"       -> [props EXCEPT !.scan_start = value]
                        [] name = "HOST_END"         -> [props EXCEPT !.scan_end = value]
                        [] OTHER                     -> props
         IN  ApplyTags_NameFirst(next, Tail(tags))

RECURSIVE ApplyTags(_, _)
(* The loop over the tag elements: props after the tags are applied in order. *)
ApplyTags(props, tags) ==
    IF tags = <<>> THEN props
    ELSE LET name  == Get(tags[1].attrib, "name", "")
             value == TextOrEmpty(tags[1].text)
             next  == CASE name = "host-ip"          -> [props EXCEPT !.ip = value]
                        [] name = "hostname"         -> [props EXCEPT !.hostname = value]
                        [] name = "operating-system" -> [props EXCEPT !.os = value]
                        [] name = "mac-address"      -> [props EXCEPT !.mac_address = value]
                        [] name = "netbios-name"     -> [props EXCEPT !.netbios_name = value]
                        [] name = "fqdn"             -> [props EXCEPT !.fqdn = value]
                        [] name = "HOST_START"       -> [props EXCEPT !.scan_start = value]
                        [] name = "HOST_END"         -> [props EXCEPT !.scan_end = value]
                        [] OTHER                     -> props
         IN  ApplyTags(next, Tail(tags))

_parse_host_properties(host_elem) ==
    LET props == [hostname |-> "", ip |-> Get(host_elem.attrib, "name", ""), os |-> "",
                  mac_address |-> "", netbios_name |-> "", fqdn |-> "",
                  scan_start |-> "", scan_end |-> ""]
    IN  IF host_elem.props = <<>> THEN props
        ELSE ApplyTags(props, host_elem.props[1])

(* ReportHost(...) for one ReportHost element *)
ParseHost(host_elem) ==
    LET vulnerabilities == _parse_host_vulnerabilities(host_elem)
    IN  IF ~vulnerabilities.ok THEN vulnerabilities
        ELSE Ok([name            |-> Get(host_elem.attrib, "name", "Unknown"),
                 properties      |-> _parse_host_properties(host_elem),
                 vulnerabilities |-> vulnerabilities.value])

_parse_hosts(tree) ==
    Collect([i \in DOMAIN tree.hosts |-> ParseHost(tree.hosts[i])])

_extract_policy_name(tree) ==
    IF tree.policyName = <<>> \/ tree.policyName[1] = NoText
    THEN "Unknown Policy" ELSE tree.policyName[1]

(* _extract_scan_info(): the dict info; its only key can be 'name' *)
_extract_scan_info(tree) ==
    IF tree.target = <<>> THEN <<>>
    ELSE [name |-> IF tree.target[1] = <<>> THEN "Unknown" ELSE tree.target[1][1]]

(* SumLen that counts the findings of the first host only. *)
SumLen_FirstHost(hosts) ==
    IF hosts = <<>> THEN 0 ELSE Len(hosts[1].vulnerabilities)

RECURSIVE SumLen(_)
(* sum(len(host.vulnerabilities) for host in hosts) *)
SumLen(hosts) ==
    IF hosts = <<>> THEN 0 ELSE Len(hosts[1].vulnerabilities) + SumLen(Tail(hosts))

(* A file that cannot be opened or read. *)
Unreadable == [wellformed |-> FALSE, readable |-> FALSE]

(* parse() without its except clauses: the exception of ET.parse or of the
   extraction reaches the caller as it was raised. *)
parse_Unhandled(doc) ==
    IF doc = Unreadable THEN Raise("FileNotFoundError", "No such file or directory")
    ELSE IF ~doc.wellformed THEN Raise("ParseError", "syntax error")
    ELSE LET scan_info == _extract_scan_info(doc)
             hosts     == _parse_hosts(doc)
         IN  IF ~hosts.ok THEN hosts
             ELSE Ok([policy_name |-> _extract_policy_name(doc),
                      scan_name   |-> Get(scan_info, "name", "Unknown Scan"),
                      scan_start  |-> Get(scan_info, "start", ""),
                      scan_end    |-> Get(scan_info, "end", ""),
                      hosts       |-> hosts.value,
                      total_hosts |-> Len(hosts.value),
                      total_vulnerabilities |-> SumLen(hosts.value)])

(* parse(): the NessusReport returned or the ValueError raised.  A file that
   cannot be read makes ET.parse raise OSError and one that is not well-formed
   XML makes it raise ParseError; every exception other than ParseError,
   raised by ET.parse or while the hosts are extracted, is caught as Exception. *)
parse(doc) ==
    IF doc = Unreadable THEN Raise("ValueError", "Error parsing Nessus file")
    ELSE IF ~doc.wellformed THEN Raise("ValueError", "Invalid XML file")
    ELSE LET scan_info == _extract_scan_info(doc)
             hosts     == _parse_hosts(doc)
         IN  IF ~hosts.ok THEN Raise("ValueError", "Error parsing Nessus file")
             ELSE Ok([policy_name |-> _extract_policy_name(doc),
                      scan_name   |-> Get(scan_info, "name", "Unknown Scan"),
                      scan_start  |-> Get(scan_info, "start", ""),
                      scan_end    |-> Get(scan_info, "end", ""),
                      hosts       |-> hosts.value,
                      total_hosts |-> Len(hosts.value),
                      total_vulnerabilities |-> SumLen(hosts.value)])

----------------------------------------------------------------------------
(* VulnerabilityProcessor: the aggregation of a NessusReport into a Summary,
   one HostSummary for each host and the recommendations. *)

(* The severity levels, Info to Critical. *)
Severities == 0..4

(* SeverityCount that also counts the findings of the higher levels. *)
SeverityCount_AtLeast(vulnerabilities, s) ==
    Cardinality({i \in DOMAIN vulnerabilities : vulnerabilities[i].severity >= s})

(* SeverityCount that leaves the last finding of the list out. *)
SeverityCount_SkipLast(vulnerabilities, s) ==
    Cardinality({i \in 1..(Len(vulnerabilities) - 1) : vulnerabilities[i].severity = s})

(* The tally of one counter: the findings of severity s in the list. *)
SeverityCount(vulnerabilities, s) ==
    Cardinality({i \in DOMAIN vulnerabilities : vulnerabilities[i].severity = s})

RECURSIVE WeightedSum(_, _, _)
(* The sum of w[l] * (the count of level l) over the levels 0..s. *)
WeightedSum(vulnerabilities, w, s) ==
    IF s < 0 THEN 0
    ELSE w[s] * SeverityCount(vulnerabilities, s) + WeightedSum(vulnerabilities, w, s - 1)

(* risk_score with the weights applied to the levels in the opposite order. *)
risk_score_Reversed(vulnerabilities, w) ==
    WeightedSum(vulnerabilities, [s \in Severities |-> w[4 - s]], 4)

(* The risk score of a host: the weighted sum over its severity counts. *)
risk_score(vulnerabilities, w) == WeightedSum(vulnerabilities, w, 4)

(* The HostSummary of one ReportHost. *)
HostSummaryOf(host, w) ==
    [hostname                 |-> host.properties.hostname,
     ip                       |-> host.properties.ip,
     os                       |-> host.properties.os,
     total_vulnerabilities    |-> Len(host.vulnerabilities),
     critical_vulnerabilities |-> SeverityCount(host.vulnerabilities, 4),
     high_vulnerabilities     |-> SeverityCount(host.vulnerabilities, 3),
     medium_vulnerabilities   |-> SeverityCount(host.vulnerabilities, 2),
     low_vulnerabilities      |-> SeverityCount(host.vulnerabilities, 1),
     info_vulnerabilities     |-> SeverityCount(host.vulnerabilities, 0),
     risk_score               |-> risk_score(host.vulnerabilities, w)]

RECURSIVE SumField(_, _)
(* The sum of one counter over the HostSummaries. *)
SumField(host_summaries, field) ==
    IF host_summaries = <<>> THEN 0
    ELSE host_summaries[1][field] + SumField(Tail(host_summaries), field)

CounterFields ==
    {"total_vulnerabilities", "critical_count", "high_count", "medium_count", "low_count",
     "info_count"}

(* The counter of a HostSummary that the counter f of the Summary adds up:
   critical_vulnerabilities for critical_count, and so on. *)
HostField(f) ==
    IF f = "total_vulnerabilities" THEN f
    ELSE SubSeq(f, 1, Len(f) - Len("count")) \o "vulnerabilities"

(* The fleet Summary: the element-wise sum of the HostSummary counters. *)
SummaryOf(host_summaries) ==
    [f \in CounterFields |-> SumField(host_summaries, HostField(f))]

(* The recommendations, most severe first. *)
RecommendationsOf(summary) ==
    (IF summary.critical_count > 0 THEN <<"Remediate critical vulnerabilities">> ELSE <<>>)
    \o (IF summary.high_count > 0 THEN <<"Remediate high vulnerabilities">> ELSE <<>>)

(* VulnerabilityProcessor(report).process() *)
process(rep, w) ==
    LET host_summaries == [h \in DOMAIN rep.hosts |-> HostSummaryOf(rep.hosts[h], w)]
        summary        == SummaryOf(host_summaries)
    IN  [summary         |-> summary,
         host_summaries  |-> host_summaries,
         recommendations |-> RecommendationsOf(summary)]

----------------------------------------------------------------------------
(* The STIG mapper. *)

(* self.plugin_to_stig after _initialize_mappings: the identity, the severity
   and the controls of each entry *)
plugin_to_stig ==
    [p \in {"10863", "21643", "20007", "42873", "11422", "66334", "10394", "11219"} |->
        CASE p = "10863" -> [stig_id |-> "V-1112", rule_id |-> "SV-52844r1_rule",
                             severity |-> "CAT II", nist_controls |-> <<"AC-6(10)">>]
          [] p = "21643" -> [stig_id |-> "V-1114", rule_id |-> "SV-52847r2_rule",
                             severity |-> "CAT II", nist_controls |-> <<"CM-6">>]
          [] p = "20007" -> [stig_id |-> "V-68897", rule_id |-> "SV-83493r1_rule",
                             severity |-> "CAT I", nist_controls |-> <<"AC-17(2)">>]
          [] p = "42873" -> [stig_id |-> "V-68903", rule_id |-> "SV-83499r2_rule",
                             severity |-> "CAT II", nist_controls |-> <<"AC-17(2)", "SC-13">>]
          [] p = "11422" -> [stig_id |-> "V-2230", rule_id |-> "SV-32755r2_rule",
                             severity |-> "CAT II", nist_controls |-> <<"CM-6">>]
          [] p = "66334" -> [stig_id |-> "V-92485", rule_id |-> "SV-102573r1_rule",
                             severity |-> "CAT I", nist_controls |-> <<"SI-2">>]
          [] p = "10394" -> [stig_id |-> "V-1098", rule_id |-> "SV-52843r2_rule",
                             severity |-> "CAT II", nist_controls |-> <<"IA-5(1)">>]
          [] p = "11219" -> [stig_id |-> "V-15823", rule_id |-> "SV-16720r1_rule",
                             severity |-> "CAT I", nist_controls |-> <<"IA-5(1)">>]]

(* self.cve_to_stig after _initialize_mappings *)
cve_to_stig ==
    [c \in {"CVE-2014-0160", "CVE-2017-0144", "CVE-2021-44228"} |->
        CASE c = "CVE-2014-0160" -> [stig_id |-> "V-68897", severity |-> "CAT I",
                                     nist_controls |-> <<"SC-8", "SC-8(1)">>]
          [] c = "CVE-2017-0144" -> [stig_id |-> "V-92485", severity |-> "CAT I",
                                     nist_controls |-> <<"SI-2">>]
          [] c = "CVE-2021-44228" -> [stig_id |-> "V-252847", severity |-> "CAT I",
                                      nist_controls |-> <<"SI-2", "SI-10">>]]

(* STIGMapper.get_stig_for_plugin(plugin_id): the STIGFinding of the entry *)
get_stig_for_plugin(plugin_id) ==
    IF plugin_id \in DOMAIN plugin_to_stig
    THEN [stig_id          |-> plugin_to_stig[plugin_id].stig_id,
          vulnerability_id |-> plugin_to_stig[plugin_id].stig_id,
          rule_id          |-> plugin_to_stig[plugin_id].rule_id,
          severity         |-> plugin_to_stig[plugin_id].severity,
          nist_controls    |-> plugin_to_stig[plugin_id].nist_controls]
    ELSE None

(* STIGMapper.get_stig_for_cve(cve) *)
get_stig_for_cve(cve) ==
    IF cve \in DOMAIN cve_to_stig THEN cve_to_stig[cve] ELSE None

(* STIGMapper.get_all_applicable_stigs(plugin_ids, cves): the dict `findings`,
   filled from the plugin identifiers alone *)
get_all_applicable_stigs(ids, cve_list) ==
    [p \in {ids[i] : i \in {j \in DOMAIN ids : get_stig_for_plugin(ids[j]) # None}} |->
        get_stig_for_plugin(p)]

----------------------------------------------------------------------------
(* The exporters.  The file written is modelled by its rows of cell values. *)

(* host.name == host_summary.ip or
   host.properties.hostname == host_summary.hostname *)
Matches(host, host_summary) ==
    \/ host.name = host_summary.ip
    \/ host.properties.hostname = host_summary.hostname

(* text[:n] + '...' if len(text) > n else text *)
Truncated(text, n) == IF Len(text) > n THEN SubSeq(text, 1, n) \o "..." ELSE text

RECURSIVE Flatten(_)
(* The concatenation of the lists of a list. *)
Flatten(lists) == IF lists = <<>> THEN <<>> ELSE lists[1] \o Flatten(Tail(lists))

(* The inner loop of CSVExporter.export: the first report host that matches
   the summary, None when none does. *)
HostDataFor(hosts, host_summary) ==
    IF \E h \in DOMAIN hosts : Matches(hosts[h], host_summary)
    THEN hosts[CHOOSE h \in DOMAIN hosts :
                   /\ Matches(hosts[h], host_summary)
                   /\ \A g \in 1..(h - 1) : ~Matches(hosts[g], host_summary)]
    ELSE None

CsvHeader ==
    <<"Host", "IP", "OS", "Plugin ID", "Plugin Name", "Severity", "Family", "Port",
      "Service", "Description", "Solution", "CVE">>

CsvRow(host_summary, vuln) ==
    <<host_summary.hostname, host_summary.ip, host_summary.os, vuln.plugin_id,
      vuln.plugin_name, vuln.severity, vuln.plugin_family, vuln.port, vuln.service_name,
      Truncated(vuln.description, 500), Truncated(vuln.solution, 200), vuln.cve>>

(* CSVExporter.export: the rows written, the header first *)
export_csv_report(analysis) ==
    LET hosts == analysis.report.hosts
        RowsOf(s) ==
            LET host_data == HostDataFor(hosts, analysis.host_summaries[s])
            IN  IF host_data = None THEN <<>>
                ELSE [v \in DOMAIN host_data.vulnerabilities |->
                         CsvRow(analysis.host_summaries[s], host_data.vulnerabilities[v])]
    IN  <<CsvHeader>> \o Flatten([s \in DOMAIN analysis.host_summaries |-> RowsOf(s)])

(* The loops shared by the Excel exports: every summary, every report host
   that matches it, every finding of that host, in the order visited. *)
MatchedFindings(analysis) ==
    LET hosts == analysis.report.hosts
        OfHost(host_summary, host) ==
            IF Matches(host, host_summary)
            THEN [v \in DOMAIN host.vulnerabilities |->
                     [host_summary |-> host_summary, host |-> host,
                      vuln |-> host.vulnerabilities[v]]]
            ELSE <<>>
        OfSummary(host_summary) ==
            Flatten([h \in DOMAIN hosts |-> OfHost(host_summary, hosts[h])])
    IN  Flatten([s \in DOMAIN analysis.host_summaries |->
                    OfSummary(analysis.host_summaries[s])])

ExcelHeader ==
    <<"IP", "Hostname", "Plugin ID", "Plugin Name", "Severity", "Family", "Port",
      "Service", "Description", "Solution", "CVE">>

ExcelRow(host, vuln) ==
    <<host.name, host.properties.hostname, vuln.plugin_id, vuln.plugin_name,
      vuln.severity, vuln.plugin_family, vuln.port, vuln.service_name,
      vuln.description, vuln.solution, vuln.cve>>

(* ExcelExporter.export_vulnerability_report: the rows of the sheet *)
export_vulnerability_report(analysis) ==
    LET matched == MatchedFindings(analysis)
    IN  <<ExcelHeader>> \o
        [i \in DOMAIN matched |-> ExcelRow(matched[i].host, matched[i].vuln)]

(* ExcelExporter.export_cnet_report: the rows of the sheet *)
export_cnet_report(analysis) ==
    LET matched == MatchedFindings(analysis)
    IN  <<ExcelHeader>> \o
        [i \in DOMAIN matched |-> ExcelRow(matched[i].host, matched[i].vuln)]

(* The risk, the category and the days to completion that export_poam gives
   a severity. *)
PoamCategory(severity) ==
    CASE severity = 4 -> [risk |-> "Very High", cat |-> "I", completion_days |-> 15]
      [] severity = 3 -> [risk |-> "High", cat |-> "II", completion_days |-> 30]
      [] severity = 2 -> [risk |-> "Moderate", cat |-> "III", completion_days |-> 90]
      [] OTHER        -> [risk |-> "Low", cat |-> "III", completion_days |-> 180]

RECURSIVE SortedBySeverity(_, _)
(* sorted(..., key=lambda x: -x[1]['vuln'].severity) of groups whose severity
   is at most `level`: a stable sort, the highest severity first. *)
SortedBySeverity(groups, level) ==
    IF groups = <<>> THEN <<>>
    ELSE SelectSeq(groups, LAMBDA g : g.vuln.severity = level) \o
         SortedBySeverity(SelectSeq(groups, LAMBDA g : g.vuln.severity < level), level - 1)

(* vuln_groups of export_poam: one group per plugin id among the findings of
   severity 2 and above, in the order the plugin ids are first met. *)
vuln_groups(analysis) ==
    LET included == SelectSeq(MatchedFindings(analysis), LAMBDA m : m.vuln.severity >= 2)
        IsFirst(i) == \A j \in 1..(i - 1) : included[j].vuln.plugin_id # included[i].vuln.plugin_id
        Place(k)   == CHOOSE i \in DOMAIN included :
                          /\ IsFirst(i)
                          /\ Cardinality({j \in 1..i : IsFirst(j)}) = k
        Same(i)    == SelectSeq(included,
                                LAMBDA m : m.vuln.plugin_id = included[i].vuln.plugin_id)
    IN  [k \in 1..Cardinality({i \in DOMAIN included : IsFirst(i)}) |->
            [vuln           |-> included[Place(k)].vuln,
             affected_hosts |-> [j \in DOMAIN Same(Place(k)) |->
                                    Same(Place(k))[j].host_summary.hostname \o " (" \o
                                    Same(Place(k))[j].host_summary.ip \o ")"]]]

(* ExcelExporter.export_poam: the rows written below the header, by column *)
export_poam(analysis) ==
    LET groups == vuln_groups(analysis)
        top    == IF groups = <<>> THEN 0
                  ELSE CHOOSE s \in {groups[g].vuln.severity : g \in DOMAIN groups} :
                           \A g \in DOMAIN groups : groups[g].vuln.severity <= s
        sorted == SortedBySeverity(groups, top)
    IN  [r \in DOMAIN sorted |->
            LET vuln == sorted[r].vuln
                cat  == PoamCategory(vuln.severity).cat
            IN  [control_id     |-> IF vuln.cve # "" THEN vuln.cve ELSE "V-" \o vuln.plugin_id,
                 weakness       |-> vuln.plugin_name,
                 milestone      |-> "Remediate Cat " \o cat \o " finding",
                 risk           |-> PoamCategory(vuln.severity).risk,
                 raw_severity   |-> "CAT " \o cat,
                 plugin_id      |-> vuln.plugin_id,
                 affected_hosts |-> sorted[r].affected_hosts]]

(* STIGMapper.get_severity_category(severity) *)
get_severity_category(severity) ==
    CASE severity = 4 -> "CAT I"
      [] severity = 3 -> "CAT I"
      [] severity = 2 -> "CAT II"
      [] severity = 1 -> "CAT III"
      [] OTHER        -> "CAT III"

(* value or default: the default for the empty text *)
OrDefault(value, default) == IF value = "" THEN default ELSE value

(* HTMLReportTemplate._render_inline_html: the text of the page, its styling
   and layout markup left out *)
_render_inline_html(data) ==
    LET HostRow(host) ==
            Concat(<<"<tr>",
                     "<td>", OrDefault(host.hostname, "N/A"), "</td>",
                     "<td>", host.ip, "</td>",
                     "<td>", OrDefault(host.os, "Unknown"), "</td>",
                     "<td>", ToString(host.total_vulnerabilities), "</td>",
                     "<td>", ToString(host.critical_vulnerabilities), "</td>",
                     "<td>", ToString(host.high_vulnerabilities), "</td>",
                     "<td>", ToString(host.medium_vulnerabilities), "</td>",
                     "<td>", ToString(host.low_vulnerabilities), "</td>",
                     "<td>", ToString(host.info_vulnerabilities), "</td>",
                     "<td>", ToString(host.risk_score), ".0</td>",
                     "</tr>">>)
    IN  Concat(<<"<title>Vulnerability Assessment Report</title>",
                 "<h1>Vulnerability Assessment Report</h1>",
                 "<p>", ToString(Len(data.host_summaries)), "</p>",
                 "<p>", ToString(data.summary.total_vulnerabilities), "</p>",
                 "<p>", ToString(data.summary.critical_count), "</p>",
                 "<p>", ToString(data.summary.high_count), "</p>",
                 "<p>", ToString(data.summary.medium_count), "</p>",
                 "<p>", ToString(data.summary.low_count), "</p>",
                 "<p>", ToString(data.summary.info_count), "</p>",
                 "<h2>Host Summary</h2>",
                 Concat([h \in DOMAIN data.host_summaries |-> HostRow(data.host_summaries[h])]),
                 "<h2>Recommendations</h2>",
                 Concat([r \in DOMAIN data.recommendations |->
                            "<li>" \o data.recommendations[r] \o "</li>"])>>)

----------------------------------------------------------------------------
(* The arguments of the calls. *)

(* Words of plugin names and descriptions: keywords of several categories of
   `patterns`, in several letter cases, and a word that holds no keyword. *)
Words == {"Default Password ", "SSL ", "weak password ", "Apache "}

(* CVE identifiers: one of the table as the table writes it, one of the table
   in lower case and padded with whitespace, one that the table does not hold. *)
CveInputs == {"CVE-2014-0160", " cve-2017-0144\n", "CVE-1999-0001"}

Texts(n) == {Concat(w) : w \in [1..n -> Words]}

(* Control identifiers: every identifier of the catalog and some that the
   catalog does not hold, bare and followed by an enhancement suffix. *)
UnknownBaseIds == {"", "AC-99", "ac-6", "AC-6 ", "SI", "ZZ-1"}

EnhancementSuffixes == {"(1)", "(10)", "(1)(2)", "()", "("}

ControlIdInputs ==
    {b \o s : b \in DOMAIN InitialControls \cup UnknownBaseIds,
              s \in EnhancementSuffixes \cup {""}}

(* ReportItem elements: without a severity attribute, with a severity that
   int() accepts (one of the five levels, above them, negative), and with one
   that it does not; without a cve sub-element, with one and with two. *)
ItemInputs ==
    { [attrib   |-> [pluginID |-> "100", pluginName |-> "Apache Banner"],
       children |-> << [tag |-> "cve", text |-> "CVE-2017-0144"],
                       [tag |-> "cve", text |-> "CVE-2017-0145"] >>],
      [attrib   |-> [pluginID |-> "101", pluginName |-> "SSL Check", severity |-> "3"],
       children |-> << [tag |-> "description", text |-> "Weak SSL cipher"],
                       [tag |-> "cve", text |-> "CVE-2014-0160"] >>],
      [attrib   |-> [pluginID |-> "102", pluginName |-> "Default Password",
                     severity |-> "high"],
       children |-> <<>>],
      [attrib   |-> [pluginID |-> "103", severity |-> " 4\n", port |-> "443"],
       children |-> << [tag |-> "description", text |-> NoText] >>],
      [attrib   |-> [pluginID |-> "104", pluginName |-> "Open Port", severity |-> ""],
       children |-> <<>>],
      [attrib   |-> [pluginID |-> "105", pluginName |-> "Telnet Server", severity |-> "7"],
       children |-> << [tag |-> "solution", text |-> "Disable telnet"] >>],
      [attrib   |-> [pluginID |-> "106", pluginName |-> "SMB Signing", severity |-> "-1"],
       children |-> <<>>] }

(* ReportHost elements without their ReportItem elements. *)
HostShells ==
    { [attrib |-> [name |-> "10.0.0.1"], props |-> <<>>],
      [attrib |-> [name |-> "web01"],
       props  |-> << << [attrib |-> [name |-> "host-ip"], text |-> "10.0.0.2"],
                        [attrib |-> [name |-> "hostname"], text |-> "web01"],
                        [attrib |-> [name |-> "operating-system"], text |-> NoText] >> >>] }

RECURSIVE HostSeqs(_)
(* The lists of ReportHost elements of at most n records. *)
HostSeqs(n) ==
    {<<>>} \cup
    UNION {{<<[attrib |-> s.attrib, props |-> s.props, items |-> its]>> \o rest :
               s \in HostShells, its \in [1..k -> ItemInputs], rest \in HostSeqs(n - 1 - k)}
           : k \in 0..(n - 1)}

Documents ==
    {Malformed, Unreadable} \cup
    {[wellformed |-> TRUE, policyName |-> <<"Basic Network Scan">>, target |-> <<>>,
      hosts |-> hs] : hs \in HostSeqs(MaxRecords)}

(* The arguments of the catalog queries: some that the tables hold and some
   that they do not. *)
CveArguments == {"CVE-2014-0160", "cve-2014-0160", "CVE-1999-0001"}

CategoryArguments == {"Weak SSL/TLS", "General Security", "Unknown Category"}

FamilyArguments == {"AC", "SI", "ac", "ZZ"}

PriorityArguments == {"P1", "P2", "P3", "P0"}

BaselineArguments == {"LOW", "MODERATE", "HIGH", "NONE"}

(* tag elements of a HostProperties element: the host address with a text and
   without one, and other properties. *)
TagInputs ==
    { [attrib |-> [name |-> "host-ip"], text |-> "10.0.0.2"],
      [attrib |-> [name |-> "host-ip"], text |-> NoText],
      [attrib |-> [name |-> "hostname"], text |-> "web01"],
      [attrib |-> [name |-> "operating-system"], text |-> NoText],
      [attrib |-> [name |-> "HOST_END"], text |-> "Mon Jan 2" ] }

TagSeqs(n) == UNION {[1..k -> TagInputs] : k \in 0..n}

(* Documents of one ReportHost, with and without a name attribute, without a
   HostProperties element and with one of at most MaxTags tags. *)
PropertyDocuments ==
    {[wellformed |-> TRUE, policyName |-> <<>>, target |-> <<>>,
      hosts |-> <<[attrib |-> a, props |-> ps, items |-> <<>>]>>] :
        a \in {<<>>, [name |-> "web01"], [name |-> "10.0.0.2"]},
        ps \in {<<>>} \cup {<<tags>> : tags \in TagSeqs(MaxTags)}}

(* Findings of every severity level. *)
FindingInputs == {[plugin_id |-> "200", severity |-> s] : s \in Severities}

RECURSIVE ReportHosts(_)
(* The lists of ReportHost objects of at most n records. *)
ReportHosts(n) ==
    {<<>>} \cup
    UNION {{<<[name |-> "10.0.0.1",
               properties |-> [hostname |-> "web01", ip |-> "10.0.0.1", os |-> ""],
               vulnerabilities |-> vs]>> \o rest :
               vs \in [1..k -> FindingInputs], rest \in ReportHosts(n - 1 - k)}
           : k \in 0..(n - 1)}

(* NessusReport objects of at most MaxRecords hosts and findings. *)
Reports ==
    {[policy_name |-> "Basic Network Scan", scan_name |-> "Unknown Scan",
      scan_start |-> "", scan_end |-> "", hosts |-> hs,
      total_hosts |-> Len(hs), total_vulnerabilities |-> SumLen(hs)] :
        hs \in ReportHosts(MaxRecords)}

(* The weightings of the levels: never negative and strictly increasing from
   Info to Critical. *)
WeightChoices ==
    {w \in [Severities -> 0..MaxWeight] : \A s \in 0..3 : w[s] < w[s + 1]}

(* Findings of the levels that every exporter writes. *)
ExportedFindings ==
    { [plugin_id |-> "300", plugin_name |-> "OpenSSL Heartbleed", plugin_family |-> "General",
       severity |-> 4, description |-> "Memory disclosure", solution |-> "Upgrade OpenSSL",
       see_also |-> "", cve |-> "CVE-2014-0160", cvss_base_score |-> "", cvss_vector |-> "",
       port |-> "443", protocol |-> "tcp", service_name |-> "www", plugin_output |-> ""],
      [plugin_id |-> "301", plugin_name |-> "SMB Signing Disabled", plugin_family |-> "Misc.",
       severity |-> 3, description |-> "Signing is not required", solution |-> "Enforce signing",
       see_also |-> "", cve |-> "", cvss_base_score |-> "", cvss_vector |-> "",
       port |-> "445", protocol |-> "tcp", service_name |-> "cifs", plugin_output |-> ""],
      [plugin_id |-> "302", plugin_name |-> "SSH Weak Algorithms", plugin_family |-> "Misc.",
       severity |-> 2, description |-> "Weak algorithms offered", solution |-> "Disable them",
       see_also |-> "", cve |-> "", cvss_base_score |-> "", cvss_vector |-> "",
       port |-> "22", protocol |-> "tcp", service_name |-> "ssh", plugin_output |-> ""] }

(* Hosts as the parser returns them, without their findings: two that share a
   hostname, one without a hostname, and one whose host-ip tag gives the name
   of the first. *)
ExportedHostShells ==
    { [name |-> "10.0.0.1", properties |-> [hostname |-> "web01", ip |-> "10.0.0.1", os |-> "Linux"]],
      [name |-> "10.0.0.2", properties |-> [hostname |-> "web01", ip |-> "10.0.0.2", os |-> "Linux"]],
      [name |-> "10.0.0.3", properties |-> [hostname |-> "", ip |-> "10.0.0.3", os |-> ""]],
      [name |-> "db01", properties |-> [hostname |-> "db01", ip |-> "10.0.0.1", os |-> ""]] }

RECURSIVE ExportedHosts(_, _)
(* The lists of at most n records of hosts with different names from shells. *)
ExportedHosts(n, shells) ==
    {<<>>} \cup
    UNION {{<<[name |-> p[1].name, properties |-> p[1].properties, vulnerabilities |-> vs]>>
            \o rest :
               vs \in [1..p[2] -> ExportedFindings],
               rest \in ExportedHosts(n - 1 - p[2], shells \ {p[1]})}
           : p \in shells \X (0..(n - 1))}

EmptyDocument ==
    [wellformed |-> TRUE, policyName |-> <<>>, target |-> <<>>, hosts |-> <<>>]

----------------------------------------------------------------------------
(* The state after NISTMapper() and NessusParser(file_path). *)

Constructed ==
    /\ control_families = InitialFamilies
    /\ controls = InitialControls
    /\ cve_to_controls = InitialCveToControls
    /\ category_to_controls = InitialCategoryToControls
    /\ root = None
    /\ op = ""
    /\ result = None

(* No VulnerabilityProcessor has been constructed. *)
NoProcessor == report = None /\ weights = None /\ analysis_data = None

(* A finding is classified and resolved. *)
Init ==
    /\ Constructed
    /\ \E na \in 0..MaxParts, nd \in 0..MaxParts, nc \in 0..MaxParts :
          /\ na + nd + nc <= MaxParts
          /\ plugin_name \in Texts(na)
          /\ description \in Texts(nd)
          /\ cves \in [1..nc -> CveInputs]
    /\ control_id = ""
    /\ plugin_ids = <<>>
    /\ document = EmptyDocument
    /\ NoProcessor

(* A control identifier is looked up. *)
InitDetails ==
    /\ Constructed
    /\ plugin_name = "" /\ description = "" /\ cves = <<>>
    /\ control_id \in ControlIdInputs
    /\ plugin_ids = <<>>
    /\ document = EmptyDocument
    /\ NoProcessor

(* A document is parsed. *)
InitParser ==
    /\ Constructed
    /\ plugin_name = "" /\ description = "" /\ cves = <<>>
    /\ control_id = ""
    /\ plugin_ids = <<>>
    /\ document \in Documents
    /\ NoProcessor

(* A finding whose name or whose description is a keyword of the table of
   the classifier, or that has none of them, is classified and resolved. *)
InitKeywords ==
    /\ Constructed
    /\ \E k \in UNION {Range(patterns[i][2]) : i \in DOMAIN patterns} \cup {"banner"} :
          \/ plugin_name = k /\ description = ""
          \/ plugin_name = "" /\ description = k
    /\ cves \in {<<>>, <<"CVE-2014-0160">>}
    /\ control_id = ""
    /\ plugin_ids = <<>>
    /\ document = EmptyDocument
    /\ NoProcessor

(* Plugin identifiers and CVE identifiers, some with an entry in the tables
   of the STIG mapper and some without, at most MaxParts together. *)
InitStig ==
    /\ Constructed
    /\ plugin_name = "" /\ description = ""
    /\ control_id = ""
    /\ \E np \in 0..MaxParts, nc \in 0..MaxParts :
          /\ np + nc <= MaxParts
          /\ plugin_ids \in [1..np -> {"42873", "11219", "99999"}]
          /\ cves \in [1..nc -> {"CVE-2014-0160", "CVE-1999-0001"}]
    /\ document = EmptyDocument
    /\ NoProcessor

(* A document is parsed and its findings are classified. *)
InitFindings ==
    /\ Constructed
    /\ plugin_name = "" /\ description = "" /\ cves = <<>>
    /\ control_id = ""
    /\ plugin_ids = <<>>
    /\ document \in {[wellformed |-> TRUE, policyName |-> <<"Basic Network Scan">>,
                       target |-> <<>>, hosts |-> hs] : hs \in HostSeqs(MaxClassified)}
    /\ NoProcessor

(* A document of one host is parsed. *)
InitProperties ==
    /\ Constructed
    /\ plugin_name = "" /\ description = "" /\ cves = <<>>
    /\ control_id = ""
    /\ plugin_ids = <<>>
    /\ document \in PropertyDocuments
    /\ NoProcessor

(* The catalog is queried: the arguments of the classifying calls are a name
   of one word, a description of one word or one CVE identifier. *)
InitQueries ==
    /\ Constructed
    /\ \E na \in 0..1, nd \in 0..1, nc \in 0..1 :
          /\ na + nd + nc <= 1
          /\ plugin_name \in Texts(na)
          /\ description \in Texts(nd)
          /\ cves \in [1..nc -> CveInputs]
    /\ control_id \in {"AC-2", "SI-2(1)", "ZZ-1"}
    /\ plugin_ids = <<>>
    /\ document = EmptyDocument
    /\ NoProcessor

(* VulnerabilityProcessor(report) *)
InitProcess ==
    /\ Constructed
    /\ plugin_name = "" /\ description = "" /\ cves = <<>>
    /\ control_id = ""
    /\ plugin_ids = <<>>
    /\ document = EmptyDocument
    /\ weights \in WeightChoices
    /\ report \in Reports
    /\ analysis_data = None

(* The report that the command line hands to the processor and then to the
   exporters. *)
InitExport ==
    /\ Constructed
    /\ plugin_name = "" /\ description = "" /\ cves = <<>>
    /\ control_id = ""
    /\ plugin_ids = <<>>
    /\ document = EmptyDocument
    /\ weights = [s \in Severities |-> s]
    /\ report \in {[policy_name |-> "Basic Network Scan", scan_name |-> "Unknown Scan",
                     scan_start |-> "", scan_end |-> "", hosts |-> hs,
                     total_hosts |-> Len(hs), total_vulnerabilities |-> SumLen(hs)] :
                       hs \in ExportedHosts(MaxExported, ExportedHostShells)}
    /\ analysis_data = None

(* NISTMapper(): a fresh instance *)
Construct ==
    /\ control_families' = InitialFamilies
    /\ controls' = InitialControls
    /\ cve_to_controls' = InitialCveToControls
    /\ category_to_controls' = InitialCategoryToControls
    /\ UNCHANGED <<args, parser, processor, op, result>>

Categorize ==
    /\ op' = "categorize_vulnerability"
    /\ result' = categorize_vulnerability(plugin_name, description)
    /\ UNCHANGED <<mapper, args, parser, processor>>

MapVulnerability ==
    /\ op' = "map_vulnerability_to_controls"
    /\ \E h \in 0..MaxSeed :
          result' = map_vulnerability_to_controls(plugin_name, description, cves, h)
    /\ category_to_controls' =
          DictAfterGet(category_to_controls, categorize_vulnerability(plugin_name, description))
    /\ UNCHANGED <<control_families, controls, cve_to_controls, args, parser, processor>>

GetControlDetails ==
    /\ op' = "get_control_details"
    /\ result' = get_control_details(control_id)
    /\ controls' = DictAfterGet(controls, BaseId(control_id))
    /\ UNCHANGED <<control_families, cve_to_controls, category_to_controls, args, parser,
                   processor>>

GetControlPriority ==
    /\ op' = "get_control_priority"
    /\ result' = get_control_priority(control_id)
    /\ controls' = DictAfterGet(controls, BaseId(control_id))
    /\ UNCHANGED <<control_families, cve_to_controls, category_to_controls, args, parser,
                   processor>>

GetControlsForCve ==
    /\ op' = "get_controls_for_cve"
    /\ \E cve \in CveArguments :
          /\ result' = get_controls_for_cve(cve)
          /\ cve_to_controls' = DictAfterGet(cve_to_controls, cve)
    /\ UNCHANGED <<control_families, controls, category_to_controls, args, parser, processor>>

GetControlsForCategory ==
    /\ op' = "get_controls_for_category"
    /\ \E category \in CategoryArguments :
          /\ result' = get_controls_for_category(category)
          /\ category_to_controls' = DictAfterGet(category_to_controls, category)
    /\ UNCHANGED <<control_families, controls, cve_to_controls, args, parser, processor>>

GetControlsByFamily ==
    /\ op' = "get_controls_by_family"
    /\ \E family_id \in FamilyArguments : result' = get_controls_by_family(family_id)
    /\ UNCHANGED <<mapper, args, parser, processor>>

GetControlsByPriority ==
    /\ op' = "get_controls_by_priority"
    /\ \E priority \in PriorityArguments : result' = get_controls_by_priority(priority)
    /\ UNCHANGED <<mapper, args, parser, processor>>

GetRmfPackageControls ==
    /\ op' = "get_rmf_package_controls"
    /\ \E baseline \in BaselineArguments : result' = get_rmf_package_controls(baseline)
    /\ UNCHANGED <<mapper, args, parser, processor>>

GetVulnerabilityControlsWithDetails ==
    /\ op' = "get_vulnerability_controls_with_details"
    /\ \E h \in 0..MaxSeed :
          result' = get_vulnerability_controls_with_details(plugin_name, description, cves, h)
    /\ category_to_controls' =
          DictAfterGet(category_to_controls, categorize_vulnerability(plugin_name, description))
    /\ UNCHANGED <<control_families, controls, cve_to_controls, args, parser, processor>>

(* NessusParser.parse(): self.root is set once ET.parse has returned *)
Parse ==
    /\ op' = "parse"
    /\ root' = IF document.wellformed THEN document ELSE root
    /\ result' = parse(document)
    /\ UNCHANGED <<mapper, args, document, processor>>

(* categorize_vulnerability(plugin_name, description) of a Finding of the
   report that parse() returned *)
CategorizeFinding ==
    /\ op = "parse" /\ result.ok
    /\ \E h \in DOMAIN result.value.hosts :
       \E v \in DOMAIN result.value.hosts[h].vulnerabilities :
          LET vuln == result.value.hosts[h].vulnerabilities[v]
          IN  /\ plugin_name' = vuln.plugin_name
              /\ description' = vuln.description
              /\ result' = categorize_text(vuln.plugin_name, vuln.description)
    /\ op' = "categorize_vulnerability"
    /\ UNCHANGED <<mapper, cves, control_id, plugin_ids, parser, processor>>

(* map_vulnerability_to_controls(plugin_name, description, cves) of a Finding
   of the report that parse() returned, with an identifier list *)
MapFinding ==
    /\ op = "parse" /\ result.ok
    /\ \E h \in DOMAIN result.value.hosts :
       \E v \in DOMAIN result.value.hosts[h].vulnerabilities :
       \E cve_list \in {<<>>, <<"CVE-2014-0160">>} :
       \E seed \in 0..MaxSeed :
          LET vuln == result.value.hosts[h].vulnerabilities[v]
          IN  /\ plugin_name' = vuln.plugin_name
              /\ description' = vuln.description
              /\ cves' = cve_list
              /\ result' = map_text_to_controls(vuln.plugin_name, vuln.description,
                                                cve_list, seed)
    /\ op' = "map_vulnerability_to_controls"
    /\ UNCHANGED <<mapper, control_id, plugin_ids, parser, processor>>

(* STIGMapper.get_all_applicable_stigs(plugin_ids, cves) *)
GetAllApplicableStigs ==
    /\ op' = "get_all_applicable_stigs"
    /\ result' = get_all_applicable_stigs(plugin_ids, cves)
    /\ UNCHANGED <<mapper, args, parser, processor>>

(* STIGMapper.get_stig_for_cve(cve) *)
GetStigForCve ==
    /\ op' = "get_stig_for_cve"
    /\ \E c \in DOMAIN cves : result' = get_stig_for_cve(cves[c])
    /\ UNCHANGED <<mapper, args, parser, processor>>

(* VulnerabilityProcessor.process() *)
Process ==
    /\ op' = "process"
    /\ result' = process(report, weights)
    /\ UNCHANGED <<mapper, args, parser, processor>>

(* analysis_data = process_nessus_report(report)
   analysis_data["report"] = report *)
ProcessNessusReport ==
    /\ analysis_data = None
    /\ analysis_data' = [summary         |-> process(report, weights).summary,
                         host_summaries  |-> process(report, weights).host_summaries,
                         recommendations |-> process(report, weights).recommendations,
                         report          |-> report]
    /\ op' = "process_nessus_report"
    /\ result' = None
    /\ UNCHANGED <<mapper, args, parser, report, weights>>

(* export_csv_report(analysis_data, output_path) *)
ExportCsv ==
    /\ analysis_data # None
    /\ op' = "export_csv_report"
    /\ result' = export_csv_report(analysis_data)
    /\ UNCHANGED <<mapper, args, parser, processor>>

(* export_html_report(analysis_data, output_path) *)
ExportHtml ==
    /\ analysis_data # None
    /\ op' = "export_html_report"
    /\ result' = _render_inline_html(analysis_data)
    /\ UNCHANGED <<mapper, args, parser, processor>>

(* export_excel_vulnerability_report(analysis_data, output_path) *)
ExportVulnerabilityReport ==
    /\ analysis_data # None
    /\ op' = "export_vulnerability_report"
    /\ result' = export_vulnerability_report(analysis_data)
    /\ UNCHANGED <<mapper, args, parser, processor>>

(* export_excel_cnet_report(analysis_data, output_path) *)
ExportCnetReport ==
    /\ analysis_data # None
    /\ op' = "export_cnet_report"
    /\ result' = export_cnet_report(analysis_data)
    /\ UNCHANGED <<mapper, args, parser, processor>>

(* export_excel_poam(analysis_data, output_path) *)
ExportPoam ==
    /\ analysis_data # None
    /\ op' = "export_poam"
    /\ result' = export_poam(analysis_data)
    /\ UNCHANGED <<mapper, args, parser, processor>>

Next == Construct \/ Categorize \/ MapVulnerability

NextExport ==
    \/ ProcessNessusReport
    \/ ExportCsv
    \/ ExportHtml
    \/ ExportVulnerabilityReport
    \/ ExportCnetReport
    \/ ExportPoam

NextDetails == GetControlDetails \/ GetControlPriority

NextParser == Parse

NextStig == GetAllApplicableStigs \/ GetStigForCve

NextKeywords == Categorize \/ MapVulnerability \/ GetVulnerabilityControlsWithDetails

NextFindings == Parse \/ CategorizeFinding \/ MapFinding

NextProcess == Process

NextQueries ==
    \/ Categorize
    \/ MapVulnerability
    \/ GetControlDetails
    \/ GetControlsForCve
    \/ GetControlsForCategory
    \/ GetControlsByFamily
    \/ GetControlsByPriority
    \/ GetRmfPackageControls
    \/ GetVulnerabilityControlsWithDetails

Spec == Init /\ [][Next]_vars

SpecDetails == InitDetails /\ [][NextDetails]_vars

SpecParser == InitParser /\ [][NextParser]_vars

SpecProperties == InitProperties /\ [][NextParser]_vars

SpecExport == InitExport /\ [][NextExport]_vars

SpecStig == InitStig /\ [][NextStig]_vars

SpecKeywords == InitKeywords /\ [][NextKeywords]_vars

SpecFindings == InitFindings /\ [][NextFindings]_vars

SpecProcess == InitProcess /\ [][NextProcess]_vars

SpecQueries == InitQueries /\ [][NextQueries]_vars

----------------------------------------------------------------------------
(* Properties of map_vulnerability_to_controls and categorize_vulnerability. *)

Mapped == op = "map_vulnerability_to_controls"
Categorized == op = "categorize_vulnerability"

(* C1: map_vulnerability_to_controls returns a non-empty list of control
   identifiers for every plugin name, description and CVE list, including empty
   strings, an empty CVE list and CVEs that the table does not hold. *)
C1_NeverEmpty == Mapped => Len(result) >= 1

(* An empty name and description with a CVE that the table does not hold. *)
C1_Witness ==
    /\ Mapped
    /\ plugin_name = "" /\ description = ""
    /\ cves = <<"CVE-1999-0001">>
    /\ Len(result) >= 1

StrictlyAscending(l) == \A i \in 1..(Len(l) - 1) : StrLess(l[i], l[i + 1])

(* C2: the list map_vulnerability_to_controls returns is in strictly ascending
   lexicographic order, and a call that follows a call with the same arguments,
   on this or on a fresh instance and whatever the hash seed, returns the same
   list. *)
C2_SortedAndStable ==
    [][(op' = "map_vulnerability_to_controls")
          => /\ StrictlyAscending(result')
             /\ (Mapped => result' = result)]_vars

(* A result where the lexicographic order differs from the numeric one. *)
C2_Witness ==
    /\ Mapped
    /\ \E i, j \in DOMAIN result : i < j /\ result[i] = "SC-12" /\ result[j] = "SC-8"

(* The controls of the table entry of CVE identifier c, normalised. *)
CveEntry(c) ==
    IF Strip(Upper(c)) \in DOMAIN cve_to_controls
    THEN Range(cve_to_controls[Strip(Upper(c))]) ELSE {}

(* The controls of the table entry of category cat. *)
CategoryEntry(cat) ==
    IF cat \in DOMAIN category_to_controls
    THEN Range(category_to_controls[cat]) ELSE {}

(* C3: a control is returned exactly when it is in the entry of a supplied CVE
   (upper-cased and trimmed) or in the entry of the category that
   categorize_vulnerability returns, or when no such control exists and it is
   the default SI-2; and no control is returned twice. *)
C3_ExactlyTheUnion ==
    Mapped =>
        LET cat == categorize_vulnerability(plugin_name, description)
            InUnion(c) == \/ \E i \in DOMAIN cves : c \in CveEntry(cves[i])
                          \/ c \in CategoryEntry(cat)
            AllControls ==
                UNION {Range(cve_to_controls[k]) : k \in DOMAIN cve_to_controls}
                \cup UNION {Range(category_to_controls[k]) : k \in DOMAIN category_to_controls}
                \cup {"SI-2"}
        IN  /\ \A c \in AllControls \cup Range(result) :
                   c \in Range(result) <=>
                       \/ InUnion(c)
                       \/ (c = "SI-2" /\ ~\E d \in AllControls : InUnion(d))
            /\ \A i, j \in DOMAIN result : result[i] = result[j] => i = j

(* Two CVEs of the table and a classified name: controls of all three. *)
C3_Witness ==
    /\ Mapped
    /\ cves = <<"CVE-2014-0160", " cve-2017-0144\n">>
    /\ plugin_name = "Default Password "
    /\ {"SC-12", "SC-7", "CM-2"} \subseteq Range(result)

Padded(c) == " " \o c \o "\n"

(* C4: map_vulnerability_to_controls returns the same list when the CVEs are
   given in upper case, in lower case or padded with whitespace. *)
C4_CveCaseAndPadding ==
    Mapped =>
        /\ result = map_vulnerability_to_controls(plugin_name, description,
                        [i \in DOMAIN cves |-> Upper(cves[i])], 0)
        /\ result = map_vulnerability_to_controls(plugin_name, description,
                        [i \in DOMAIN cves |-> Lower(cves[i])], 0)
        /\ result = map_vulnerability_to_controls(plugin_name, description,
                        [i \in DOMAIN cves |-> Padded(cves[i])], 0)
        /\ map_vulnerability_to_controls(plugin_name, description, <<"cve-2014-0160">>, 0)
             = map_vulnerability_to_controls(plugin_name, description, <<"CVE-2014-0160">>, 0)

(* A lower-case, padded CVE of the table, resolved to its controls. *)
C4_Witness ==
    /\ Mapped
    /\ cves = <<" cve-2017-0144\n">>
    /\ {"CM-7", "RA-5", "SC-7", "SI-2"} \subseteq Range(result)

(* A keyword of table entry i occurs in one of the lower-cased texts. *)
HitIn(i, name_lower, desc_lower) ==
    \E k \in DOMAIN patterns[i][2] :
        \/ Contains(name_lower, patterns[i][2][k])
        \/ Contains(desc_lower, patterns[i][2][k])

CategoryNames == {patterns[i][1] : i \in DOMAIN patterns}

(* C5: categorize_vulnerability returns a category for every pair of strings,
   and returns the default General Security exactly when no keyword of any
   table entry occurs in the lower-cased name or description. *)
C5_TotalWithDefault ==
    Categorized =>
        LET name_lower == Lower(plugin_name)
            desc_lower == Lower(description)
        IN  /\ result \in CategoryNames \cup {"General Security"}
            /\ (result = "General Security")
                   <=> (\A i \in DOMAIN patterns : ~HitIn(i, name_lower, desc_lower))

(* Two empty strings are classified as the default. *)
C5_Witness ==
    /\ Categorized
    /\ plugin_name = "" /\ description = ""
    /\ result = "General Security"

(* C6: categorize_vulnerability returns the first category, in table order,
   with a keyword hit in the name or the description. *)
C6_FirstInTableOrder ==
    Categorized =>
        LET name_lower == Lower(plugin_name)
            desc_lower == Lower(description)
        IN  \A i \in DOMAIN patterns :
                (/\ HitIn(i, name_lower, desc_lower)
                 /\ \A j \in 1..(i - 1) : ~HitIn(j, name_lower, desc_lower))
                    => result = patterns[i][1]

(* A later category hit in the name, an earlier one in the description. *)
C6_Witness ==
    /\ Categorized
    /\ plugin_name = "weak password " /\ description = "SSL "
    /\ result = "Weak SSL/TLS"

(* C7 as claimed: every finding whose name contains "default password", in any
   letter case, is classified as Default Credentials. *)
C7_DefaultPasswordAlways ==
    (Categorized /\ Contains(Lower(plugin_name), "default password"))
        => result = "Default Credentials"

(* The index of category cat in the table. *)
PatternIndex(cat) == CHOOSE i \in DOMAIN patterns : patterns[i][1] = cat

(* C7 as amended: a finding whose name contains "default password", in any
   letter case, is classified as Default Credentials provided no keyword of a
   category declared before Default Credentials (Missing Patches, Weak SSL/TLS,
   Weak Encryption) occurs in its name or description. *)
C7_DefaultPasswordUnlessEarlier ==
    Categorized =>
        LET name_lower == Lower(plugin_name)
            desc_lower == Lower(description)
        IN  (/\ Contains(name_lower, "default password")
             /\ \A j \in 1..(PatternIndex("Default Credentials") - 1) :
                    ~HitIn(j, name_lower, desc_lower))
                => result = "Default Credentials"

(* "Default Password" with a keyword of the later Weak Passwords beside it. *)
C7_Witness ==
    /\ Categorized
    /\ plugin_name = "weak password Default Password "
    /\ result = "Default Credentials"

----------------------------------------------------------------------------
(* Properties of get_control_details. *)

(* C8: for every identifier b of the catalog and every enhancement suffix s,
   get_control_details(b followed by s) returns the definition of b, which is
   what get_control_details(b) returns; for an identifier whose base the
   catalog does not hold it returns None. *)
C8_EnhancementSuffix ==
    op = "get_control_details" =>
        \A b \in DOMAIN controls \cup UnknownBaseIds, s \in EnhancementSuffixes \cup {""} :
            control_id = b \o s =>
                IF b \in DOMAIN controls
                THEN /\ result = controls[b]
                     /\ result = get_control_details(b)
                     /\ result.control_id = b
                ELSE result = None

(* AC-6(10) is looked up as AC-6. *)
C8_Witness ==
    /\ op = "get_control_details"
    /\ control_id = "AC-6(10)"
    /\ result = controls["AC-6"]

----------------------------------------------------------------------------
(* Properties of NessusParser.parse. *)

Parsed == op = "parse"

(* The places <<h, i>> of the ReportItem elements of the document. *)
ItemPlaces ==
    IF document.wellformed
    THEN UNION {{<<h, i>> : i \in DOMAIN document.hosts[h].items} :
                   h \in DOMAIN document.hosts}
    ELSE {}

ItemAt(p) == document.hosts[p[1]].items[p[2]]

(* The Finding of the report for the ReportItem at place p. *)
FindingAt(p) == result.value.hosts[p[1]].vulnerabilities[p[2]]

HasSeverity(p) == "severity" \in DOMAIN ItemAt(p).attrib

(* C9: a finding record without a severity attribute does not make parse()
   fail, and its Finding has severity 0: when parse() raises, the document is
   not well-formed or another record has a severity attribute that is not one
   of 0, 1, 2, 3, 4; when it returns, the Finding of every record without the
   attribute has severity 0. *)
C9_MissingSeverityIsInfo ==
    Parsed =>
        \A p \in ItemPlaces :
            ~HasSeverity(p) =>
                IF result.ok
                THEN FindingAt(p).severity = 0
                ELSE \E q \in ItemPlaces :
                        /\ HasSeverity(q)
                        /\ ItemAt(q).attrib["severity"] \notin {"0", "1", "2", "3", "4"}

(* A report with a record without the attribute beside one with severity 3. *)
C9_Witness ==
    /\ Parsed
    /\ result.ok
    /\ \E p, q \in ItemPlaces :
          /\ ~HasSeverity(p) /\ FindingAt(p).severity = 0
          /\ HasSeverity(q) /\ FindingAt(q).severity = 3

(* No character of s is a digit. *)
NotNumeric(s) == \A i \in 1..Len(s) : ~IsDigit(CharAt(s, i))

(* C10: when a finding record has a severity attribute that is not numeric,
   parse() returns a report in which that Finding has severity 0 and every
   host and every finding record of the document is present. *)
C10_BadSeverityIsDefaulted ==
    (Parsed /\ \E p \in ItemPlaces : HasSeverity(p) /\ NotNumeric(ItemAt(p).attrib["severity"]))
        => /\ result.ok
           /\ Len(result.value.hosts) = Len(document.hosts)
           /\ \A h \in DOMAIN document.hosts :
                 Len(result.value.hosts[h].vulnerabilities) = Len(document.hosts[h].items)
           /\ \A p \in ItemPlaces :
                 /\ FindingAt(p).plugin_id = Get(ItemAt(p).attrib, "pluginID", "")
                 /\ (HasSeverity(p) /\ NotNumeric(ItemAt(p).attrib["severity"]))
                        => FindingAt(p).severity = 0

(* C11: every Finding of a report that parse() returns has a severity in
   0..4, whatever integer the severity attribute of its record writes. *)
C11_SeverityInRange ==
    (Parsed /\ result.ok) => \A p \in ItemPlaces : FindingAt(p).severity \in 0..4

(* The fields of a Finding that _get_text fills from the sub-element of the
   same name. *)
TextFields ==
    {"description", "solution", "see_also", "cve", "cvss_base_score", "cvss_vector",
     "plugin_output"}

HasChild(item, tag_name) == \E i \in DOMAIN item.children : item.children[i].tag = tag_name

PropertyFields ==
    {"hostname", "ip", "os", "mac_address", "netbios_name", "fqdn", "scan_start", "scan_end"}

(* C12: in a report that parse() returns, every text field of every Finding
   and every field of every HostProperties is a string, never None, and the
   field of a sub-element that the record does not have is the empty string. *)
C12_TextNeverNone ==
    (Parsed /\ result.ok) =>
        /\ \A p \in ItemPlaces : \A f \in TextFields :
               /\ FindingAt(p)[f] # NoText
               /\ ~HasChild(ItemAt(p), f) => FindingAt(p)[f] = ""
        /\ \A h \in DOMAIN result.value.hosts : \A f \in PropertyFields :
               result.value.hosts[h].properties[f] # NoText

(* The tag elements of the HostProperties element of the ReportHost at h. *)
TagsOf(h) ==
    IF document.hosts[h].props = <<>> THEN <<>> ELSE document.hosts[h].props[1]

(* The places of the host-ip tags among them. *)
HostIpTags(h) == {i \in DOMAIN TagsOf(h) : TagsOf(h)[i].attrib = [name |-> "host-ip"]}

Last(S) == CHOOSE i \in S : \A j \in S : j <= i

(* C13: the ip of the HostProperties of a host record is the text of its
   host-ip tag (of the last one when it has several, the empty string when the
   tag has no text), wherever the tag stands, and it is the name attribute of
   the record when the record has no host-ip tag. *)
C13_HostIpPrecedence ==
    (Parsed /\ result.ok) =>
        \A h \in DOMAIN document.hosts :
            LET ip   == result.value.hosts[h].properties.ip
                text == TagsOf(h)[Last(HostIpTags(h))].text
            IN  IF HostIpTags(h) # {}
                THEN ip = (IF text = NoText THEN "" ELSE text)
                ELSE ip = Get(document.hosts[h].attrib, "name", "")

(* A record named web01 whose host-ip tag stands after another tag. *)
C13_Witness ==
    /\ Parsed /\ result.ok
    /\ document.hosts # <<>>
    /\ document.hosts[1].attrib = [name |-> "web01"]
    /\ HostIpTags(1) # {} /\ 1 \notin HostIpTags(1)
    /\ result.value.hosts[1].properties.ip = "10.0.0.2"

(* The places <<h, i>> of the Findings of the report returned. *)
FindingPlaces ==
    UNION {{<<h, i>> : i \in DOMAIN result.value.hosts[h].vulnerabilities} :
              h \in DOMAIN result.value.hosts}

(* C14: in a report that parse() returns, total_hosts is the length of the
   hosts list and total_vulnerabilities is the number of Findings of all the
   hosts together. *)
C14_Totals ==
    (Parsed /\ result.ok) =>
        /\ result.value.total_hosts = Len(result.value.hosts)
        /\ result.value.total_vulnerabilities = Cardinality(FindingPlaces)

(* A report of two hosts, the first with two Findings and the second with none. *)
C14_Witness ==
    /\ Parsed /\ result.ok
    /\ result.value.total_hosts = 2
    /\ Len(result.value.hosts[1].vulnerabilities) = 2
    /\ Len(result.value.hosts[2].vulnerabilities) = 0
    /\ result.value.total_vulnerabilities = 2

(* C15: the report lists the host records in document order and each host
   lists its finding records in document order: the host at place h of the
   report is the record at place h of the document, with as many Findings as
   the record has finding records, and its Finding at place i is the finding
   record at place i of that record. *)
C15_DocumentOrder ==
    (Parsed /\ result.ok) =>
        /\ Len(result.value.hosts) = Len(document.hosts)
        /\ \A h \in DOMAIN document.hosts :
              /\ result.value.hosts[h].name = Get(document.hosts[h].attrib, "name", "Unknown")
              /\ Len(result.value.hosts[h].vulnerabilities) = Len(document.hosts[h].items)
        /\ \A p \in ItemPlaces :
              /\ FindingAt(p).plugin_id = Get(ItemAt(p).attrib, "pluginID", "")
              /\ FindingAt(p).plugin_name = Get(ItemAt(p).attrib, "pluginName", "")
              /\ FindingAt(p).port = Get(ItemAt(p).attrib, "port", "")

(* Two different hosts, each with one finding record, the two records
   different. *)
C15_Witness ==
    /\ Parsed /\ result.ok
    /\ Len(result.value.hosts) = 2
    /\ result.value.hosts[1].name # result.value.hosts[2].name
    /\ Len(result.value.hosts[1].vulnerabilities) = 1
    /\ Len(result.value.hosts[2].vulnerabilities) = 1
    /\ FindingAt(<<1, 1>>).plugin_id = "101"
    /\ FindingAt(<<2, 1>>).plugin_id = "100"

ReportFields ==
    {"policy_name", "scan_name", "scan_start", "scan_end", "hosts", "total_hosts",
     "total_vulnerabilities"}

(* A finding record whose severity attribute int() rejects. *)
ExtractionFails ==
    \E p \in ItemPlaces : ~PyInt(Get(ItemAt(p).attrib, "severity", "0")).ok

(* C16: parse() either returns a NessusReport with all its fields, every host
   record and every finding record of the document, or raises ValueError;
   it raises for a file that is not well-formed, for one that cannot be read
   and when the extraction of a record fails, and in no other case. *)
C16_ReportOrValueError ==
    Parsed =>
        /\ IF result.ok
           THEN /\ DOMAIN result.value = ReportFields
                /\ Len(result.value.hosts) = Len(document.hosts)
                /\ \A h \in DOMAIN document.hosts :
                      Len(result.value.hosts[h].vulnerabilities) = Len(document.hosts[h].items)
           ELSE /\ DOMAIN result = {"ok", "type", "message"}
                /\ result.type = "ValueError"
        /\ result.ok <=> (document.wellformed /\ ~ExtractionFails)

(* ValueError for a file that cannot be read. *)
C16_Witness ==
    /\ Parsed
    /\ document = Unreadable
    /\ ~result.ok /\ result.type = "ValueError"

Processed == op = "process"

(* The name of the counter of each severity level. *)
CounterOf ==
    [s \in Severities |->
        CASE s = 4 -> "critical_count" [] s = 3 -> "high_count" [] s = 2 -> "medium_count"
          [] s = 1 -> "low_count" [] OTHER -> "info_count"]

RECURSIVE Total(_, _)
(* The sum of f[i] over the i in S. *)
Total(f, S) ==
    IF S = {} THEN 0
    ELSE LET i == CHOOSE j \in S : TRUE IN f[i] + Total(f, S \ {i})

(* The findings of severity s of the host at h of the report. *)
FindingsOfLevel(h, s) ==
    {i \in DOMAIN report.hosts[h].vulnerabilities :
        report.hosts[h].vulnerabilities[i].severity = s}

(* C17: the result of process() is consistent: there is one HostSummary for
   each host, whose counter of level s counts the findings of severity s of
   that host; each counter of the Summary is the sum of that counter over the
   HostSummaries; the total of the Summary is the sum of its five counters,
   the sum of the totals of the HostSummaries and the finding count of the
   report. *)
C17_Consistent ==
    Processed =>
        LET summary == result.summary
            hosts   == result.host_summaries
        IN  /\ Len(hosts) = Len(report.hosts)
            /\ \A h \in DOMAIN hosts : \A s \in Severities :
                   hosts[h][HostField(CounterOf[s])] = Cardinality(FindingsOfLevel(h, s))
            /\ \A s \in Severities :
                   summary[CounterOf[s]] =
                       Total([h \in DOMAIN hosts |-> hosts[h][HostField(CounterOf[s])]],
                             DOMAIN hosts)
            /\ summary.total_vulnerabilities =
                   Total([s \in Severities |-> summary[CounterOf[s]]], Severities)
            /\ summary.total_vulnerabilities =
                   Total([h \in DOMAIN hosts |-> hosts[h].total_vulnerabilities], DOMAIN hosts)
            /\ summary.total_vulnerabilities = report.total_vulnerabilities

(* Two hosts, one with a Critical finding and one with an Info finding. *)
C17_Witness ==
    /\ Processed
    /\ Len(report.hosts) = 2
    /\ result.host_summaries[1].critical_vulnerabilities = 1
    /\ result.host_summaries[2].info_vulnerabilities = 1
    /\ result.summary.critical_count = 1
    /\ result.summary.info_count = 1
    /\ result.summary.total_vulnerabilities = 2

RECURSIVE Orderings(_)
(* The sequences that list every element of S once. *)
Orderings(S) ==
    IF S = {} THEN {<<>>}
    ELSE UNION {{<<x>> \o o : o \in Orderings(S \ {x})} : x \in S}

(* The list l in the order o of its places. *)
Reordered(l, o) == [i \in DOMAIN o |-> l[o[i]]]

RECURSIVE Shuffles(_, _)
(* The shuffles of the hosts at the places S of the list: every order of the
   hosts, each with its findings in every order, each host with the place
   `from` it had. *)
Shuffles(hosts, S) ==
    IF S = {} THEN {<<>>}
    ELSE UNION {{<<[from |-> h,
                    host |-> [hosts[h] EXCEPT !.vulnerabilities = Reordered(@, o)]]>> \o rest :
                    o \in Orderings(DOMAIN hosts[h].vulnerabilities),
                    rest \in Shuffles(hosts, S \ {h})}
                : h \in S}

(* C18: process() of the report with its hosts in another order and the
   findings of each host in another order gives the same Summary, and for
   every host the same HostSummary, counters and risk score. *)
C18_OrderIndependent ==
    Processed =>
        \A shuffle \in Shuffles(report.hosts, DOMAIN report.hosts) :
            LET shuffled == [report EXCEPT !.hosts = [i \in DOMAIN shuffle |-> shuffle[i].host]]
                other    == process(shuffled, weights)
            IN  /\ other.summary = result.summary
                /\ \A i \in DOMAIN shuffle :
                       other.host_summaries[i] = result.host_summaries[shuffle[i].from]

(* A report of two different hosts, the first with two findings of different
   severities. *)
C18_Witness ==
    /\ Processed
    /\ Len(report.hosts) = 2
    /\ Len(report.hosts[1].vulnerabilities) = 2
    /\ report.hosts[1].vulnerabilities[1].severity = 4
    /\ report.hosts[1].vulnerabilities[2].severity = 1
    /\ result.host_summaries[1].risk_score > result.host_summaries[2].risk_score
    /\ Cardinality(Shuffles(report.hosts, DOMAIN report.hosts)) = 4

(* C19: the risk score of a host is the sum over the five levels of the
   weight of the level times the count of the level, with weights that
   strictly increase from Info to Critical: it is never negative, zero for a
   host without findings, greater than zero for a host with a Critical or a
   High finding, and with one more finding of a higher severity it is not
   lower than with one more finding of a lower severity. *)
C19_RiskScore ==
    Processed =>
        /\ \A s \in 0..3 : weights[s] < weights[s + 1]
        /\ \A h \in DOMAIN report.hosts :
              LET host  == report.hosts[h]
                  score == result.host_summaries[h].risk_score
                  With(s) == [host EXCEPT !.vulnerabilities =
                                 Append(@, [plugin_id |-> "201", severity |-> s])]
              IN  /\ score = Total([s \in Severities |->
                                       weights[s] * Cardinality(FindingsOfLevel(h, s))],
                                   Severities)
                  /\ score >= 0
                  /\ host.vulnerabilities = <<>> => score = 0
                  /\ (FindingsOfLevel(h, 4) \cup FindingsOfLevel(h, 3)) # {} => score > 0
                  /\ \A lo, hi \in Severities :
                         lo < hi => HostSummaryOf(With(hi), weights).risk_score
                                        >= HostSummaryOf(With(lo), weights).risk_score

(* A host without findings beside a host with a High and a Low finding. *)
C19_Witness ==
    /\ Processed
    /\ Len(report.hosts) = 2
    /\ report.hosts[1].vulnerabilities = <<>>
    /\ result.host_summaries[1].risk_score = 0
    /\ Cardinality(FindingsOfLevel(2, 3)) = 1 /\ Cardinality(FindingsOfLevel(2, 1)) = 1
    /\ result.host_summaries[2].risk_score = weights[3] + weights[1]
    /\ result.host_summaries[2].risk_score > 0

(* C20: after any sequence of queries of the mapper, the four tables of the
   catalog hold what they held right after construction. *)
C20_CatalogNeverMutated ==
    /\ control_families = InitialFamilies
    /\ controls = InitialControls
    /\ cve_to_controls = InitialCveToControls
    /\ category_to_controls = InitialCategoryToControls

(* A query for a CVE identifier that the table does not hold has returned the
   empty list and has left no entry for it. *)
C20_Witness ==
    /\ op = "get_controls_for_cve"
    /\ result = <<>>
    /\ {"CVE-1999-0001", "cve-2014-0160"} \cap DOMAIN cve_to_controls = {}
    /\ cve_to_controls = InitialCveToControls
----------------------------------------------------------------------------
(* Properties of the exporters. *)

(* The number of places of rows that hold the row r. *)
Occurrences(rows, r) == Cardinality({i \in DOMAIN rows : rows[i] = r})

(* The findings of the report with the place of their host, host by host. *)
ReportFindings ==
    Flatten([h \in DOMAIN analysis_data.report.hosts |->
                [v \in DOMAIN analysis_data.report.hosts[h].vulnerabilities |->
                    [place |-> h, vuln |-> analysis_data.report.hosts[h].vulnerabilities[v]]]])

(* The rows that carry each finding of the report with the hostname and the
   IP of the summary of its own host. *)
OwnCsvRows ==
    [i \in DOMAIN ReportFindings |->
        CsvRow(analysis_data.host_summaries[ReportFindings[i].place], ReportFindings[i].vuln)]

(* C21: export_csv_report writes the header row and then exactly one data row
   per finding of the report, each carrying the hostname and the IP of the
   host the finding belongs to, also when hosts share a hostname or have an
   empty one. *)
C21_CsvOneRowPerFinding ==
    op = "export_csv_report" =>
        /\ result[1] = CsvHeader
        /\ Len(result) = 1 + Len(ReportFindings)
        /\ \A i \in DOMAIN OwnCsvRows :
               Occurrences(Tail(result), OwnCsvRows[i]) = Occurrences(OwnCsvRows, OwnCsvRows[i])

(* C22: the HTML report contains the title, the hostname of every HostSummary
   and the plugin name of every finding of the report. *)
C22_HtmlContent ==
    op = "export_html_report" =>
        /\ Contains(result, "Vulnerability Assessment Report")
        /\ \A h \in DOMAIN analysis_data.host_summaries :
               Contains(result, analysis_data.host_summaries[h].hostname)
        /\ \A i \in DOMAIN ReportFindings :
               Contains(result, ReportFindings[i].vuln.plugin_name)

(* C29: export_vulnerability_report and export_cnet_report write each finding
   in exactly one data row, so that the sheet has as many data rows as the
   report has findings, also when hosts share a hostname, have an empty one,
   or one host has the key that is the IP of another. *)
C29_ExcelOneRowPerFinding ==
    op \in {"export_vulnerability_report", "export_cnet_report"} =>
        /\ Len(result) = 1 + Len(ReportFindings)
        /\ \A i \in DOMAIN ReportFindings :
               LET row == ExcelRow(analysis_data.report.hosts[ReportFindings[i].place],
                                   ReportFindings[i].vuln)
               IN  Occurrences(Tail(result), row) =
                   Cardinality({j \in DOMAIN ReportFindings :
                                   /\ ReportFindings[j].place = ReportFindings[i].place
                                   /\ ReportFindings[j].vuln = ReportFindings[i].vuln})

(* C30: for every finding of severity 2, 3 or 4 that export_poam writes, the
   CAT level of its row, in the raw severity column and in the milestone
   text, is the one that get_severity_category gives the severity. *)
C30_CatLevelsAgree ==
    op = "export_poam" =>
        \A r \in DOMAIN result : \A i \in DOMAIN ReportFindings :
            LET vuln == ReportFindings[i].vuln
                cat  == get_severity_category(vuln.severity)
            IN  (vuln.plugin_id = result[r].plugin_id /\ vuln.severity \in {2, 3, 4}) =>
                    /\ result[r].raw_severity = cat
                    /\ result[r].milestone =
                           "Remediate Cat " \o SubSeq(cat, 5, Len(cat)) \o " finding"

----------------------------------------------------------------------------
(* Properties of the parser and the mapper together. *)

(* C23: categorize_vulnerability and map_vulnerability_to_controls, applied
   to the plugin_name and the description of a Finding that parse() returned,
   return a result and never raise, also when the description sub-element is
   absent or is present and empty. *)
C23_ClassificationNeverRaises ==
    op \in {"categorize_vulnerability", "map_vulnerability_to_controls"} => result.ok

(* C24: in a report that parse() returns, the cve field of a Finding is empty
   when its ReportItem has no cve sub-element and contains the text of every
   cve sub-element that the ReportItem has. *)
C24_IdentifiersRetained ==
    (Parsed /\ result.ok) =>
        \A p \in ItemPlaces :
            /\ ~HasChild(ItemAt(p), "cve") => FindingAt(p).cve = ""
            /\ \A c \in DOMAIN ItemAt(p).children :
                   ItemAt(p).children[c].tag = "cve" =>
                       Contains(FindingAt(p).cve, ItemAt(p).children[c].text)

----------------------------------------------------------------------------
(* Properties of the tables of the mapper. *)

(* The categories of the keyword table of the classifier. *)
PatternCategories == {patterns[i][1] : i \in DOMAIN patterns}

(* C25: every category of the keyword table of the classifier that has
   answered is reachable: it has a keyword that, given as the name of a
   finding, categorize_vulnerability answers with that category, so that not
   all of its keywords are shadowed by keywords of categories listed earlier. *)
C25_EveryCategoryReachable ==
    op = "categorize_vulnerability" =>
        \A i \in DOMAIN patterns :
            \E k \in DOMAIN patterns[i][2] :
                categorize_vulnerability(patterns[i][2][k], "") = patterns[i][1]

(* The last category of the table has been returned for one of its keywords,
   and so has a category whose keyword contains a keyword of another one. *)
C25_Witness ==
    /\ op = "categorize_vulnerability"
    /\ plugin_name = "vulnerability scan"
    /\ result = "Vulnerability Scanning"
    /\ patterns[Len(patterns)][1] = "Vulnerability Scanning"

(* C27: every category that categorize_vulnerability can return, the keys of
   the keyword table and General Security, is a key of category_to_controls
   with a list that is not empty; so the result of
   map_vulnerability_to_controls holds all the controls of the category of
   the finding, and the default SI-2 alone is never taken. *)
C27_CategoryAlwaysMapped ==
    /\ \A c \in PatternCategories \cup {"General Security"} :
           c \in DOMAIN category_to_controls /\ category_to_controls[c] # <<>>
    /\ op = "categorize_vulnerability" =>
           result \in PatternCategories \cup {"General Security"}
    /\ op = "map_vulnerability_to_controls" =>
           LET category == categorize_vulnerability(plugin_name, description)
           IN  /\ Range(get_controls_for_category(category)) # {}
               /\ Range(category_to_controls[category]) \subseteq Range(result)

(* A finding without any keyword and without identifiers has been resolved to
   the controls of General Security. *)
C27_Witness ==
    /\ op = "map_vulnerability_to_controls"
    /\ plugin_name = "banner" /\ cves = <<>>
    /\ categorize_vulnerability(plugin_name, description) = "General Security"
    /\ Range(result) = Range(category_to_controls["General Security"])

(* The control identifiers that the two mapping tables hold, and the default. *)
MappedIds ==
    UNION {Range(cve_to_controls[c]) : c \in DOMAIN cve_to_controls}
    \cup UNION {Range(category_to_controls[c]) : c \in DOMAIN category_to_controls}
    \cup {"SI-2"}

(* C28: the mapping tables are referentially closed: every control identifier
   of cve_to_controls and category_to_controls, and SI-2, is a key of the
   control catalog, its definition carries the same control_id and a
   family_id that is a key of the family table; so
   get_vulnerability_controls_with_details returns one definition for each
   identifier that map_vulnerability_to_controls returns, in the same order. *)
C28_ReferentiallyClosed ==
    /\ \A cid \in MappedIds :
           /\ cid \in DOMAIN controls
           /\ controls[cid].control_id = cid
           /\ controls[cid].family_id \in DOMAIN control_families
    /\ op = "get_vulnerability_controls_with_details" =>
           LET ids == map_vulnerability_to_controls(plugin_name, description, cves, 0)
           IN  /\ Len(result) = Len(ids)
               /\ \A i \in DOMAIN ids : result[i].control_id = ids[i]

(* The definitions of a finding with a keyword of Weak SSL/TLS and the
   identifier of Heartbleed have been returned, more than one of them. *)
C28_Witness ==
    /\ op = "get_vulnerability_controls_with_details"
    /\ plugin_name = "ssl" /\ cves = <<"CVE-2014-0160">>
    /\ Len(result) > 1
    /\ result[1].control_id # result[2].control_id

----------------------------------------------------------------------------
(* Properties of the STIG mapper. *)

(* C26: get_all_applicable_stigs returns STIG findings for both inputs: every
   plugin identifier with an entry in plugin_to_stig and every CVE with an
   entry in cve_to_stig contributes its STIG to the result, and an identifier
   without an entry contributes nothing. *)
C26_BothInputsContribute ==
    op = "get_all_applicable_stigs" =>
        LET OfPlugins == {plugin_to_stig[plugin_ids[i]].stig_id :
                             i \in {j \in DOMAIN plugin_ids :
                                        plugin_ids[j] \in DOMAIN plugin_to_stig}}
            OfCves    == {cve_to_stig[cves[i]].stig_id :
                             i \in {j \in DOMAIN cves : cves[j] \in DOMAIN cve_to_stig}}
        IN  {result[k].stig_id : k \in DOMAIN result} = OfPlugins \cup OfCves

====
